---- MODULE Spec2Model ----
(***************************************************************************)
(* aasvg-rs: the recognition engine of the ASCII-art to SVG converter.     *)
(*                                                                         *)
(* The model follows src/src/grid.rs (Grid, preprocess), src/src/chars.rs  *)
(* (the character classifier), src/src/finder.rs (the scanner pipeline)    *)
(* and src/src/decoration.rs (decoration records).  The path module        *)
(* (Vec2, Path, PathSet) and the SVG generator are not among the source    *)
(* files; what the finder needs of them is modelled from spec.md.          *)
(*                                                                         *)
(* A character is a string: an ASCII character is itself, any other        *)
(* character is written "uXXXX" after its code point.  A text (Rust str)   *)
(* is a sequence of characters.  Grid coordinates are 0-based as in the    *)
(* code; sequences are 1-based, so cell (x, y) is chars[y + 1][x + 1].     *)
(***************************************************************************)
EXTENDS Integers, Sequences, FiniteSets, TLC

VARIABLES
    input,        \* the diagram text handed to render_with_options
    pc,           \* position in render_with_options / the calling sequence
    chars,        \* Grid.chars : Vec<Vec<char>>
    used,         \* Grid.used  : Vec<Vec<bool>>
    width,        \* Grid.width
    height,       \* Grid.height
    paths,        \* PathSet, in insertion order
    decorations,  \* DecorationSet, in insertion order
    texts,        \* text runs surfaced by the generator
    call,         \* the last Grid method call and what it returned
    scan,         \* the loop variables of the scanner that is running
    other         \* the local state of a second, suspended invocation

vars == <<input, pc, chars, used, width, height, paths, decorations, texts, call,
          scan, other>>

grid == <<chars, used, width, height>>

----------------------------------------------------------------------------
(* Characters *)

NL == "\n"
SP == " "
TAB == "\t"
NBSP == "u00A0"        \* U+00A0 NO-BREAK SPACE, White_Space, 2 bytes in UTF-8
IDSP == "u3000"        \* U+3000 IDEOGRAPHIC SPACE, White_Space, 3 bytes
BOXH == "u2500"        \* '─'
BOXV == "u2502"        \* '│'
DBLH == "u2550"        \* '═'
DBLV == "u2551"        \* '║'
DIAGF == "u2571"       \* '╱'
DIAGB == "u2572"       \* '╲'
PT_DOTTED == "u25CC"   \* '◌'
PT_OPEN == "u25CB"     \* '○'
PT_SHADED == "u25CD"   \* '◍'
PT_CLOSED == "u25CF"   \* '●'
PT_XOR == "u2295"      \* '⊕'
GRAY1 == "u2581"       \* '▁'
GRAY2 == "u2582"       \* '▂'
GRAY3 == "u2583"       \* '▃'
GRAY4 == "u2588"       \* '█'
TRI1 == "u25E2"        \* '◢'
TRI2 == "u25E3"        \* '◣'
TRI3 == "u25E4"        \* '◤'
TRI4 == "u25E5"        \* '◥'
HID_o == "uE000"       \* private use placeholder for 'o'
HID_v == "uE001"       \* private use placeholder for 'v'
HID_V == "uE002"       \* private use placeholder for 'V'
KANJI == "u65E5"       \* '日', a 3-byte character that is no glyph of the classifier
BACKTICK == "u0060"    \* the grave accent, 1 byte

\* chars.rs constants
ARROW_HEAD_CHARS == {">", "v", "<", "^", "V"}
POINT_CHARS == {"o", "*", PT_DOTTED, PT_OPEN, PT_SHADED, PT_CLOSED, PT_XOR}
JUMP_CHARS == {"(", ")"}
VERTEX_CHARS == {"+", ".", "'", ",", BACKTICK}
GRAY_CHARS == {GRAY1, GRAY2, GRAY3, GRAY4}
TRI_CHARS == {TRI1, TRI2, TRI3, TRI4}

\* char::is_ascii_alphabetic
AsciiLetters ==
    {"a", "b", "c", "d", "e", "f", "g", "h", "i", "j", "k", "l", "m",
     "n", "o", "p", "q", "r", "s", "t", "u", "v", "w", "x", "y", "z",
     "A", "B", "C", "D", "E", "F", "G", "H", "I", "J", "K", "L", "M",
     "N", "O", "P", "Q", "R", "S", "T", "U", "V", "W", "X", "Y", "Z"}

\* char::is_whitespace on the characters of the model (Unicode White_Space).
IsWhitespace(c) == c \in {SP, TAB, NBSP, IDSP}

\* char::len_utf8
ByteLen(c) ==
    IF c = NBSP THEN 2
    ELSE IF c \in ({IDSP, BOXH, BOXV, DBLH, DBLV, DIAGF, DIAGB, KANJI,
                    HID_o, HID_v, HID_V} \cup (POINT_CHARS \ {"o", "*"})
                    \cup GRAY_CHARS \cup TRI_CHARS) THEN 3
    ELSE 1

\* a vertex test that knows the top vertices only
IsTopVertexOnly(c) == c = "." \/ c = "," \/ c = "+"

is_vertex(c) == c \in VERTEX_CHARS
is_undirected_vertex(c) == c = "+"
is_top_vertex(c) == c = "." \/ c = "," \/ c = "+"
is_bottom_vertex(c) == c = "'" \/ c = BACKTICK \/ c = "+"
is_solid_h_line(c) == c = "-" \/ c = BOXH \/ c = "+" \/ c = "(" \/ c = ")"
is_squiggle_h_line(c) == c = "~" \/ c = "+" \/ c = "(" \/ c = ")"
is_double_h_line(c) == c = "=" \/ c = DBLH \/ c = "+" \/ c = "(" \/ c = ")"
is_any_h_line(c) == is_solid_h_line(c) \/ is_squiggle_h_line(c) \/ is_double_h_line(c)
is_solid_v_line(c) == c = "|" \/ c = BOXV \/ c = "+"
is_double_v_line(c) == c = DBLV \/ c = "+"
is_solid_d_line(c) == c = "/" \/ c = DIAGF
is_solid_b_line(c) == c = "\\" \/ c = DIAGB
is_gray(c) == c \in GRAY_CHARS
is_tri(c) == c \in TRI_CHARS
is_arrow_head(c) == c \in ARROW_HEAD_CHARS
is_point(c) == c \in POINT_CHARS
is_jump(c) == c = "(" \/ c = ")"
is_decoration(c) == is_arrow_head(c) \/ is_point(c) \/ is_gray(c) \/ is_tri(c)
is_top_vertex_or_decoration(c) == is_top_vertex(c) \/ c = "^"
is_bottom_vertex_or_decoration(c) == is_bottom_vertex(c) \/ c = "v" \/ c = "V"
is_vertex_or_left_decoration(c) == is_vertex(c) \/ c = "<" \/ is_point(c)
is_vertex_or_right_decoration(c) == is_vertex(c) \/ c = ">" \/ is_point(c)
is_ascii_letter(c) == c \in AsciiLetters

gray_level(c) ==
    CASE c = GRAY1 -> 64
      [] c = GRAY2 -> 128
      [] c = GRAY3 -> 191
      [] c = GRAY4 -> 255
      [] OTHER -> 0

tri_angle(c) ==
    CASE c = TRI1 -> 0
      [] c = TRI2 -> 90
      [] c = TRI3 -> 180
      [] c = TRI4 -> 270
      [] OTHER -> 0

----------------------------------------------------------------------------
(* Texts: str::lines, join("\n"), byte lengths and byte slices *)

\* A panic of the Rust program, as the value of an operation that panicked.
Panic == <<"PANIC">>

Max(a, b) == IF a >= b THEN a ELSE b
Min(a, b) == IF a <= b THEN a ELSE b

RECURSIVE SplitNL(_)
\* str::split('\n'): the pieces between line feeds, at least one piece.
SplitNL(t) ==
    IF t = <<>> THEN << <<>> >>
    ELSE LET rest == SplitNL(Tail(t))
         IN  IF Head(t) = NL THEN << <<>> >> \o rest
             ELSE << <<Head(t)>> \o rest[1] >> \o Tail(rest)

\* str::lines: as split('\n'), without the empty piece after a final line feed.
\* (No text of the model holds a carriage return.)
Lines(t) ==
    LET s == SplitNL(t)
    IN  IF s[Len(s)] = <<>> THEN SubSeq(s, 1, Len(s) - 1) ELSE s

RECURSIVE Join(_)
\* [&str]::join("\n")
Join(ls) ==
    IF ls = <<>> THEN <<>>
    ELSE IF Len(ls) = 1 THEN ls[1]
    ELSE ls[1] \o <<NL>> \o Join(Tail(ls))

RECURSIVE StrLen(_)
\* str::len: the length in bytes
StrLen(l) == IF l = <<>> THEN 0 ELSE ByteLen(Head(l)) + StrLen(Tail(l))

RECURSIVE TrimStart(_)
\* str::trim_start
TrimStart(l) ==
    IF l # <<>> /\ IsWhitespace(Head(l)) THEN TrimStart(Tail(l)) ELSE l

\* str::trim().is_empty()
IsBlankLine(l) == \A i \in 1..Len(l) : IsWhitespace(l[i])

RECURSIVE SliceFrom(_, _)
\* &l[n..] for n <= l.len(): panics when byte n is inside a character.
SliceFrom(l, n) ==
    IF n = 0 THEN l
    ELSE IF l = <<>> THEN Panic
    ELSE IF ByteLen(Head(l)) > n THEN Panic
    ELSE SliceFrom(Tail(l), n - ByteLen(Head(l)))

RECURSIVE SeqMin(_)
SeqMin(s) == IF Len(s) = 1 THEN s[1] ELSE Min(s[1], SeqMin(Tail(s)))

RECURSIVE SeqMax(_)
SeqMax(s) == IF s = <<>> THEN 0 ELSE Max(s[1], SeqMax(Tail(s)))

RECURSIVE Filter(_, _)
\* the elements of s at the indices in keep, in order
Filter(s, keep) ==
    IF s = <<>> THEN <<>>
    ELSE LET rest == Filter(Tail(s), {i - 1 : i \in keep \ {1}})
         IN  IF 1 \in keep THEN <<Head(s)>> \o rest ELSE rest

Repeat(c, n) == [i \in 1..n |-> c]

----------------------------------------------------------------------------
(* grid.rs: preprocess and Grid::new *)

\* remove_leading_space: min_spaces is a number of BYTES (l.len() -
\* l.trim_start().len()), and &l[min_spaces..] is a byte slice.
remove_leading_space(t) ==
    LET lines == Lines(t)
        nonblank == {i \in 1..Len(lines) : ~IsBlankLine(lines[i])}
        leads == [i \in 1..Len(lines) |->
                      StrLen(lines[i]) - StrLen(TrimStart(lines[i]))]
        min_spaces == IF nonblank = {} THEN 0
                      ELSE SeqMin(Filter(leads, nonblank))
        cut == [i \in 1..Len(lines) |->
                    IF StrLen(lines[i]) >= min_spaces
                    THEN SliceFrom(lines[i], min_spaces)
                    ELSE <<>>]
    IN  IF min_spaces = 0 THEN t
        ELSE IF \E i \in 1..Len(lines) : cut[i] = Panic THEN Panic
        ELSE Join(cut)

\* equalize_line_lengths: pads to the longest line, counted in characters.
equalize_line_lengths(t) ==
    LET lines == Lines(t)
        max_len == SeqMax([i \in 1..Len(lines) |-> Len(lines[i])])
    IN  Join([i \in 1..Len(lines) |->
                 IF Len(lines[i]) < max_len
                 THEN lines[i] \o Repeat(SP, max_len - Len(lines[i]))
                 ELSE lines[i]])

\* The placeholder hide_markers writes for a marker character.
Placeholder(c) ==
    CASE c = "o" -> HID_o
      [] c = "v" -> HID_v
      [] c = "V" -> HID_V
      [] OTHER -> c

\* a marker hiding that looks at the left neighbour only
HideMarkersLeftOnly(t) ==
    LET lines == Lines(t)
        get(x, y) == IF x < 1 \/ x > Len(lines[y]) THEN SP ELSE lines[y][x]
    IN  Join([y \in 1..Len(lines) |->
                 [x \in 1..Len(lines[y]) |->
                     LET c == lines[y][x]
                     IN  IF c \in {"o", "v", "V"}
                            /\ is_ascii_letter(get(x - 1, y))
                         THEN Placeholder(c)
                         ELSE c]])

\* hide_markers: neighbours are read in the unchanged lines.
hide_markers(t) ==
    LET lines == Lines(t)
        get(x, y) == IF x < 1 \/ x > Len(lines[y]) THEN SP ELSE lines[y][x]
    IN  Join([y \in 1..Len(lines) |->
                 [x \in 1..Len(lines[y]) |->
                     LET c == lines[y][x]
                     IN  IF c \in {"o", "v", "V"}
                            /\ (is_ascii_letter(get(x - 1, y))
                                \/ is_ascii_letter(get(x + 1, y)))
                         THEN Placeholder(c)
                         ELSE c]])

RECURSIVE Replace(_, _, _)
\* str::replace(from, to) for single characters
Replace(t, from, to) ==
    IF t = <<>> THEN <<>>
    ELSE <<IF Head(t) = from THEN to ELSE Head(t)>> \o Replace(Tail(t), from, to)

\* an unhide that restores the 'o' placeholder only
UnhideMarkersOnlyO(t) == Replace(t, HID_o, "o")

\* unhide_markers
unhide_markers(t) ==
    Replace(Replace(Replace(t, HID_o, "o"), HID_v, "v"), HID_V, "V")

\* preprocess
preprocess(t) ==
    LET a == remove_leading_space(t)
    IN  IF a = Panic THEN Panic
        ELSE hide_markers(equalize_line_lengths(a))

\* Grid::new on the lines of the preprocessed input: height is the number
\* of lines, width the longest line in characters, every row padded to it.
GridOf(lines) ==
    LET h == Len(lines)
        w == SeqMax([i \in 1..h |-> Len(lines[i])])
    IN  [panic  |-> FALSE,
         chars  |-> [i \in 1..h |-> lines[i] \o Repeat(SP, w - Len(lines[i]))],
         used   |-> [i \in 1..h |-> Repeat(FALSE, w)],
         width  |-> w,
         height |-> h]

\* Grid::new: the grid, with panic set when preprocess panics.
GridNew(t) ==
    LET pre == preprocess(t)
    IN  IF pre = Panic
        THEN [panic |-> TRUE, chars |-> <<>>, used |-> <<>>,
              width |-> 0, height |-> 0]
        ELSE GridOf(Lines(pre))

----------------------------------------------------------------------------
(* grid.rs: Grid methods.  i32 arguments; "as usize" of a negative value   *)
(* is never reached, the sign checks return first.                         *)

\* what a Grid method yields when it panics
PanicValue == "PANIC"

\* Vec indexing m[y][x] with usize indices: a panic when out of bounds.
Index2(m, x, y) ==
    IF y < Len(m) /\ x < Len(m[y + 1]) THEN m[y + 1][x + 1] ELSE PanicValue

\* a get whose upper bounds test is off by one: it indexes row `height`
\* and column `width`
GetInclusiveBounds(x, y) ==
    IF x < 0 \/ y < 0 THEN SP
    ELSE IF y > height \/ x > width THEN SP
    ELSE Index2(chars, x, y)

\* Grid::get
Get(x, y) ==
    IF x < 0 \/ y < 0 THEN SP
    ELSE IF y >= height \/ x >= width THEN SP
    ELSE Index2(chars, x, y)

\* a set_used that flips the flag instead of setting it
SetUsedToggle(u, x, y) ==
    IF x < 0 \/ y < 0 THEN u
    ELSE IF y < height /\ x < width
         THEN [u EXCEPT ![y + 1][x + 1] = ~u[y + 1][x + 1]]
         ELSE u

\* Grid::set_used on the bitmap u: the new bitmap.
SetUsed(u, x, y) ==
    IF x < 0 \/ y < 0 THEN u
    ELSE IF y < height /\ x < width
         THEN [u EXCEPT ![y + 1][x + 1] = TRUE]
         ELSE u

\* Grid::is_used on the bitmap u
IsUsed(u, x, y) ==
    IF x < 0 \/ y < 0 THEN FALSE
    ELSE IF y >= height \/ x >= width THEN FALSE
    ELSE Index2(u, x, y)

----------------------------------------------------------------------------
(* The path module (Vec2, Path, PathSet), modelled from spec.md sections 3 *)
(* and 4.4.  Positions are kept in half cells: the centre of cell (x, y)   *)
(* is (2x, 2y), so that the half-cell offsets of curves and underscores    *)
(* stay integers.  The fixed scale and aspect ratio are an injective       *)
(* affine map of these and are left out.                                   *)

\* Vec2::from_grid
from_grid(x, y) == [x |-> 2 * x, y |-> 2 * y]

\* Vec2::offset, its arguments given in half cells (offset(-0.5, 0.0) is
\* offset(v, -1, 0))
offset(v, hx, hy) == [x |-> v.x + hx, y |-> v.y + hy]

\* Path::line
PathLine(a, b) ==
    [a |-> a, b |-> b, ctrl |-> <<>>, double |-> FALSE, squiggle |-> FALSE]

\* Path::line_from_grid
line_from_grid(x1, y1, x2, y2) == PathLine(from_grid(x1, y1), from_grid(x2, y2))

\* Path::curve
PathCurve(a, b, c1, c2) ==
    [a |-> a, b |-> b, ctrl |-> <<c1, c2>>, double |-> FALSE, squiggle |-> FALSE]

\* Path::with_double, Path::with_squiggle
with_double(p, d) == [p EXCEPT !.double = d]
with_squiggle(p, q) == [p EXCEPT !.squiggle = q]

\* Grid::set_used called on each cell of a sequence of cells in turn
RECURSIVE SetUsedAll(_, _)
SetUsedAll(u, cells) ==
    IF cells = <<>> THEN u
    ELSE SetUsedAll(SetUsed(u, cells[1][1], cells[1][2]), Tail(cells))

\* the cells (x, y0), ..., (x, y1) and (x0, y), ..., (x1, y) in scan order
VCells(x, y0, y1) == [k \in 1..(y1 - y0 + 1) |-> <<x, y0 + k - 1>>]
HCells(x0, x1, y) == [k \in 1..(x1 - x0 + 1) |-> <<x0 + k - 1, y>>]

\* the first row e >= y of column x that is off the grid or whose character
\* is not in S (the inner while loop of a vertical scanner)
VRunEnd(x, y, S) ==
    CHOOSE e \in y..height :
        /\ \A k \in y..(e - 1) : Get(x, k) \in S
        /\ (e = height \/ Get(x, e) \notin S)

\* the same along row y (the inner while loop of a horizontal scanner)
HRunEnd(x, y, S) ==
    CHOOSE e \in x..width :
        /\ \A k \in x..(e - 1) : Get(k, y) \in S
        /\ (e = width \/ Get(e, y) \notin S)

\* the characters of the grid
GridChars == {chars[r][c] : r \in 1..height, c \in 1..width}

----------------------------------------------------------------------------
(* finder.rs: the path scanners.  Each takes the consumed bitmap and the   *)
(* path list and returns both as the scanner leaves them.                  *)

Scanned(u, ps) == [used |-> u, paths |-> ps]

\* a keep test that lets a run of one cell through
SolidVKeepSingle(start_y, end_y) == end_y >= start_y

\* find_solid_vertical_lines: a run is kept when it has two cells or more
SolidVKeep(start_y, end_y) == end_y > start_y

\* a path that stops on the run's own cells
SolidVPathUnextended(x, start_y, end_y) == line_from_grid(x, start_y, x, end_y)

\* find_solid_vertical_lines: the path of a kept run, its ends extended
\* onto a top vertex above and a bottom vertex below
SolidVPath(x, start_y, end_y) ==
    LET adj_start_y == IF is_top_vertex(Get(x, start_y - 1))
                       THEN start_y - 1 ELSE start_y
        adj_end_y == IF is_bottom_vertex(Get(x, end_y + 1))
                     THEN end_y + 1 ELSE end_y
    IN  line_from_grid(x, adj_start_y, x, adj_end_y)

RECURSIVE SolidVScan(_, _, _, _)
SolidVScan(x, y, u, ps) ==
    IF x >= width THEN Scanned(u, ps)
    ELSE IF y >= height THEN SolidVScan(x + 1, 0, u, ps)
    ELSE IF is_solid_v_line(Get(x, y))
    THEN LET start_y == y
             e == VRunEnd(x, y, {c \in GridChars : is_solid_v_line(c)})
             end_y == e - 1
             u2 == SetUsedAll(u, VCells(x, start_y, end_y))
         IN  SolidVScan(x, e, u2,
                 IF SolidVKeep(start_y, end_y)
                 THEN Append(ps, SolidVPath(x, start_y, end_y))
                 ELSE ps)
    ELSE SolidVScan(x, y + 1, u, ps)

find_solid_vertical_lines(u, ps) == SolidVScan(0, 0, u, ps)

\* find_double_vertical_lines: a run of one cell is kept
DoubleVKeep(start_y, end_y) == end_y >= start_y

RECURSIVE DoubleVScan(_, _, _, _)
DoubleVScan(x, y, u, ps) ==
    IF x >= width THEN Scanned(u, ps)
    ELSE IF y >= height THEN DoubleVScan(x + 1, 0, u, ps)
    ELSE IF Get(x, y) = DBLV
    THEN LET start_y == y
             e == VRunEnd(x, y, {DBLV})
             end_y == e - 1
             u2 == SetUsedAll(u, VCells(x, start_y, end_y))
         IN  DoubleVScan(x, e, u2,
                 IF DoubleVKeep(start_y, end_y)
                 THEN Append(ps, with_double(
                          line_from_grid(x, start_y, x, end_y), TRUE))
                 ELSE ps)
    ELSE DoubleVScan(x, y + 1, u, ps)

find_double_vertical_lines(u, ps) == DoubleVScan(0, 0, u, ps)

\* find_solid_horizontal_lines: a run starts on '-' or BOXH and goes on
\* through '+' as well
SolidHStart(c) == c = "-" \/ c = BOXH
\* a continuation set that takes the vertical bar for a junction
SolidHContThroughBar(c) == c = "-" \/ c = BOXH \/ c = "+" \/ c = "|"
\* a continuation set without the junction
SolidHContNoJunction(c) == c = "-" \/ c = BOXH
SolidHCont(c) == c = "-" \/ c = BOXH \/ c = "+"

\* find_solid_horizontal_lines: a run is kept when it has two cells or more
SolidHKeep(start_x, end_x) == end_x > start_x

\* a path whose ends are always moved one cell outward
SolidHPathAlwaysExtended(y, start_x, end_x) ==
    line_from_grid(start_x - 1, y, end_x + 1, y)

\* find_solid_horizontal_lines: the path of a kept run, its ends extended
\* onto a vertex on the left and on the right
SolidHPath(y, start_x, end_x) ==
    LET adj_start_x == IF is_vertex(Get(start_x - 1, y))
                       THEN start_x - 1 ELSE start_x
        adj_end_x == IF is_vertex(Get(end_x + 1, y))
                     THEN end_x + 1 ELSE end_x
    IN  line_from_grid(adj_start_x, y, adj_end_x, y)

RECURSIVE SolidHScan(_, _, _, _)
SolidHScan(x, y, u, ps) ==
    IF y >= height THEN Scanned(u, ps)
    ELSE IF x >= width THEN SolidHScan(0, y + 1, u, ps)
    ELSE IF SolidHStart(Get(x, y))
    THEN LET start_x == x
             e == HRunEnd(x, y, {c \in GridChars : SolidHCont(c)})
             end_x == e - 1
             u2 == SetUsedAll(u, HCells(start_x, end_x, y))
         IN  SolidHScan(e, y, u2,
                 IF SolidHKeep(start_x, end_x)
                 THEN Append(ps, SolidHPath(y, start_x, end_x))
                 ELSE ps)
    ELSE SolidHScan(x + 1, y, u, ps)

find_solid_horizontal_lines(u, ps) == SolidHScan(0, 0, u, ps)

\* find_squiggle_horizontal_lines: a run is kept when it has two cells or more
SquiggleKeep(start_x, end_x) == end_x > start_x

RECURSIVE SquiggleScan(_, _, _, _)
SquiggleScan(x, y, u, ps) ==
    IF y >= height THEN Scanned(u, ps)
    ELSE IF x >= width THEN SquiggleScan(0, y + 1, u, ps)
    ELSE IF Get(x, y) = "~"
    THEN LET start_x == x
             e == HRunEnd(x, y, {"~"})
             end_x == e - 1
             u2 == SetUsedAll(u, HCells(start_x, end_x, y))
         IN  SquiggleScan(e, y, u2,
                 IF SquiggleKeep(start_x, end_x)
                 THEN Append(ps, with_squiggle(
                          line_from_grid(start_x, y, end_x, y), TRUE))
                 ELSE ps)
    ELSE SquiggleScan(x + 1, y, u, ps)

find_squiggle_horizontal_lines(u, ps) == SquiggleScan(0, 0, u, ps)

\* find_double_horizontal_lines: a run of one cell is kept
DoubleHKeep(start_x, end_x) == end_x >= start_x

RECURSIVE DoubleHScan(_, _, _, _)
DoubleHScan(x, y, u, ps) ==
    IF y >= height THEN Scanned(u, ps)
    ELSE IF x >= width THEN DoubleHScan(0, y + 1, u, ps)
    ELSE IF Get(x, y) = "=" \/ Get(x, y) = DBLH
    THEN LET start_x == x
             e == HRunEnd(x, y, {"=", DBLH})
             end_x == e - 1
             u2 == SetUsedAll(u, HCells(start_x, end_x, y))
         IN  DoubleHScan(e, y, u2,
                 IF DoubleHKeep(start_x, end_x)
                 THEN Append(ps, with_double(
                          line_from_grid(start_x, y, end_x, y), TRUE))
                 ELSE ps)
    ELSE DoubleHScan(x + 1, y, u, ps)

find_double_horizontal_lines(u, ps) == DoubleHScan(0, 0, u, ps)

\* find_underscore_lines: a run is kept when it has two cells or more
UnderscoreKeep(start_x, end_x) == end_x > start_x

RECURSIVE UnderscoreScan(_, _, _, _)
UnderscoreScan(x, y, u, ps) ==
    IF y >= height THEN Scanned(u, ps)
    ELSE IF x >= width THEN UnderscoreScan(0, y + 1, u, ps)
    ELSE IF Get(x, y) = "_"
    THEN LET start_x == x
             e == HRunEnd(x, y, {"_"})
             end_x == e - 1
             u2 == SetUsedAll(u, HCells(start_x, end_x, y))
         IN  UnderscoreScan(e, y, u2,
                 IF UnderscoreKeep(start_x, end_x)
                 THEN Append(ps, PathLine(
                          offset(from_grid(start_x, y), 0, 1),
                          offset(from_grid(end_x, y), 0, 1)))
                 ELSE ps)
    ELSE UnderscoreScan(x + 1, y, u, ps)

find_underscore_lines(u, ps) == UnderscoreScan(0, 0, u, ps)

\* the number of cells of the backslash run that starts at (x, y) and goes
\* down-right (the inner while loop of find_backslash_diagonals)
BRunLen(x, y) ==
    CHOOSE n \in 0..Min(width - x, height - y) :
        /\ \A k \in 0..(n - 1) : is_solid_b_line(Get(x + k, y + k))
        /\ (n = Min(width - x, height - y)
            \/ ~is_solid_b_line(Get(x + n, y + n)))

\* the same for the forward slash run going down-left
DRunLen(x, y) ==
    CHOOSE n \in 0..Min(x + 1, height - y) :
        /\ \A k \in 0..(n - 1) : is_solid_d_line(Get(x - k, y + k))
        /\ (n = Min(x + 1, height - y)
            \/ ~is_solid_d_line(Get(x - n, y + n)))

BCells(x, y, n) == [k \in 1..n |-> <<x + k - 1, y + k - 1>>]
DCells(x, y, n) == [k \in 1..n |-> <<x - k + 1, y + k - 1>>]

\* find_backslash_diagonals: the first cell of sweep number start
BackslashStart(start) ==
    IF start < width THEN <<start, 0>> ELSE <<0, start - width + 1>>

\* find_backslash_diagonals: a run is kept when it has two cells or more
BackslashKeep(line_start_x, line_end_x) == line_end_x > line_start_x

RECURSIVE BackslashScan(_, _, _, _, _)
BackslashScan(start, x, y, u, ps) ==
    IF start >= width + height - 1 THEN Scanned(u, ps)
    ELSE IF ~(x < width /\ y < height)
    THEN IF start + 1 >= width + height - 1 THEN Scanned(u, ps)
         ELSE BackslashScan(start + 1, BackslashStart(start + 1)[1],
                            BackslashStart(start + 1)[2], u, ps)
    ELSE IF is_solid_b_line(Get(x, y))
    THEN LET n == BRunLen(x, y)
             line_end_x == x + n - 1
             line_end_y == y + n - 1
             u2 == SetUsedAll(u, BCells(x, y, n))
         IN  BackslashScan(start, x + n, y + n, u2,
                 IF BackslashKeep(x, line_end_x)
                 THEN Append(ps, line_from_grid(x, y, line_end_x, line_end_y))
                 ELSE ps)
    ELSE BackslashScan(start, x + 1, y + 1, u, ps)

find_backslash_diagonals(u, ps) ==
    BackslashScan(0, BackslashStart(0)[1], BackslashStart(0)[2], u, ps)

\* find_forward_slash_diagonals: the first cell of sweep number start
ForwardStart(start) ==
    IF start < width THEN <<width - 1 - start, 0>>
    ELSE <<width - 1, start - width + 1>>

\* find_forward_slash_diagonals: a run is kept when it has two cells or more
ForwardKeep(line_start_x, line_end_x) == line_start_x > line_end_x

\* a path stored in the order the run was walked
ForwardPathAsWalked(line_start_x, line_start_y, line_end_x, line_end_y) ==
    line_from_grid(line_start_x, line_start_y, line_end_x, line_end_y)

\* find_forward_slash_diagonals: the run was walked from its top-right cell
\* (line_start) to its bottom-left cell (line_end); the path is stored from
\* the bottom-left to the top-right
ForwardPath(line_start_x, line_start_y, line_end_x, line_end_y) ==
    line_from_grid(line_end_x, line_end_y, line_start_x, line_start_y)

RECURSIVE ForwardScan(_, _, _, _, _)
ForwardScan(start, x, y, u, ps) ==
    IF start >= width + height - 1 THEN Scanned(u, ps)
    ELSE IF ~(x >= 0 /\ y < height)
    THEN IF start + 1 >= width + height - 1 THEN Scanned(u, ps)
         ELSE ForwardScan(start + 1, ForwardStart(start + 1)[1],
                          ForwardStart(start + 1)[2], u, ps)
    ELSE IF is_solid_d_line(Get(x, y))
    THEN LET n == DRunLen(x, y)
             line_end_x == x - n + 1
             line_end_y == y + n - 1
             u2 == SetUsedAll(u, DCells(x, y, n))
         IN  ForwardScan(start, x - n, y + n, u2,
                 IF ForwardKeep(x, line_end_x)
                 THEN Append(ps, ForwardPath(x, y, line_end_x, line_end_y))
                 ELSE ps)
    ELSE ForwardScan(start, x - 1, y + 1, u, ps)

find_forward_slash_diagonals(u, ps) ==
    ForwardScan(0, ForwardStart(0)[1], ForwardStart(0)[2], u, ps)

\* the cells of the grid in row-major order (for y in 0..height, for x in
\* 0..width)
RowMajor == [k \in 1..(width * height) |-> <<(k - 1) % width, (k - 1) \div width>>]

\* find_curved_corners: the curve from the point half a cell to the side
\* (sx = -1 left, 1 right) to the point half a cell below or above
\* (sy = 1 below, -1 above), both control points at the centre of the cell
CornerCurve(x, y, sx, sy) ==
    PathCurve(offset(from_grid(x, y), sx, 0), offset(from_grid(x, y), 0, sy),
              from_grid(x, y), from_grid(x, y))

\* a corner scan that emits the left curve or else the right one, never both
CornerCurvesFirstOnly(x, y) ==
    LET c == Get(x, y)
        left == Get(x - 1, y)
        right == Get(x + 1, y)
        below == Get(x, y + 1)
        above == Get(x, y - 1)
        top == c = "." \/ c = ","
        bottom == c = "'" \/ c = BACKTICK
    IN  IF top /\ is_solid_h_line(left) /\ is_solid_v_line(below)
        THEN <<CornerCurve(x, y, -1, 1)>>
        ELSE IF top /\ is_solid_h_line(right) /\ is_solid_v_line(below)
        THEN <<CornerCurve(x, y, 1, 1)>>
        ELSE IF bottom /\ is_solid_h_line(left) /\ is_solid_v_line(above)
        THEN <<CornerCurve(x, y, -1, -1)>>
        ELSE IF bottom /\ is_solid_h_line(right) /\ is_solid_v_line(above)
        THEN <<CornerCurve(x, y, 1, -1)>>
        ELSE <<>>

\* find_curved_corners: the curves of cell (x, y), in the order they are
\* inserted
CornerCurves(x, y) ==
    LET c == Get(x, y)
        left == Get(x - 1, y)
        right == Get(x + 1, y)
        below == Get(x, y + 1)
        above == Get(x, y - 1)
        top == c = "." \/ c = ","
        bottom == c = "'" \/ c = BACKTICK
    IN  (IF top /\ is_solid_h_line(left) /\ is_solid_v_line(below)
         THEN <<CornerCurve(x, y, -1, 1)>> ELSE <<>>)
        \o (IF top /\ is_solid_h_line(right) /\ is_solid_v_line(below)
            THEN <<CornerCurve(x, y, 1, 1)>> ELSE <<>>)
        \o (IF bottom /\ is_solid_h_line(left) /\ is_solid_v_line(above)
            THEN <<CornerCurve(x, y, -1, -1)>> ELSE <<>>)
        \o (IF bottom /\ is_solid_h_line(right) /\ is_solid_v_line(above)
            THEN <<CornerCurve(x, y, 1, -1)>> ELSE <<>>)

RECURSIVE CornerScan(_, _, _)
CornerScan(cells, u, ps) ==
    IF cells = <<>> THEN Scanned(u, ps)
    ELSE LET x == cells[1][1]
             y == cells[1][2]
             cs == CornerCurves(x, y)
         IN  CornerScan(Tail(cells),
                        IF cs # <<>> THEN SetUsed(u, x, y) ELSE u,
                        ps \o cs)

find_curved_corners(u, ps) == CornerScan(RowMajor, u, ps)

----------------------------------------------------------------------------
(* PathSet queries, modelled from spec.md sections 4.3 and 4.4: "a         *)
(* matching-direction straight line ends at or passes through the adjacent *)
(* cell", "a path passes through cell (x,y) without ending there".  ps is  *)
(* the path list.                                                          *)

is_horizontal(p) == p.ctrl = <<>> /\ p.a.y = p.b.y
is_vertical(p) == p.ctrl = <<>> /\ p.a.x = p.b.x
\* a straight path rising to the right ('/') and one falling to the right
is_diagonal(p) ==
    p.ctrl = <<>> /\ p.a.x < p.b.x /\ p.a.y > p.b.y
is_back_diagonal(p) ==
    p.ctrl = <<>> /\ p.a.x < p.b.x /\ p.a.y < p.b.y

PathsOf(ps) == {ps[i] : i \in 1..Len(ps)}

\* a horizontal path coming from the left ends in the cell left of (x, y)
left_ends_at(ps, x, y) ==
    \E p \in PathsOf(ps) : is_horizontal(p) /\ p.b = from_grid(x - 1, y)
\* a horizontal path coming from the right ends in the cell right of (x, y)
right_ends_at(ps, x, y) ==
    \E p \in PathsOf(ps) : is_horizontal(p) /\ p.a = from_grid(x + 1, y)
\* a vertical path coming from above ends in the cell above (x, y)
up_ends_at(ps, x, y) ==
    \E p \in PathsOf(ps) : is_vertical(p) /\ p.b = from_grid(x, y - 1)
\* a vertical path coming from below ends in the cell below (x, y)
down_ends_at(ps, x, y) ==
    \E p \in PathsOf(ps) : is_vertical(p) /\ p.a = from_grid(x, y + 1)
horizontal_passes_through(ps, x, y) ==
    \E p \in PathsOf(ps) :
        is_horizontal(p) /\ p.a.y = 2 * y /\ p.a.x < 2 * x /\ 2 * x < p.b.x
vertical_passes_through(ps, x, y) ==
    \E p \in PathsOf(ps) :
        is_vertical(p) /\ p.a.x = 2 * x /\ p.a.y < 2 * y /\ 2 * y < p.b.y
\* a '/' path ends, at its upper right, in the cell below left of (x, y)
diagonal_up_ends_at(ps, x, y) ==
    \E p \in PathsOf(ps) : is_diagonal(p) /\ p.b = from_grid(x - 1, y + 1)
\* a '/' path ends, at its lower left, in the cell above right of (x, y)
diagonal_down_ends_at(ps, x, y) ==
    \E p \in PathsOf(ps) : is_diagonal(p) /\ p.a = from_grid(x + 1, y - 1)
\* a '\' path ends, at its lower right, in the cell above left of (x, y)
back_diagonal_down_ends_at(ps, x, y) ==
    \E p \in PathsOf(ps) : is_back_diagonal(p) /\ p.b = from_grid(x - 1, y - 1)
\* a '\' path ends, at its upper left, in the cell below right of (x, y)
back_diagonal_up_ends_at(ps, x, y) ==
    \E p \in PathsOf(ps) : is_back_diagonal(p) /\ p.a = from_grid(x + 1, y + 1)

\* path::diagonal_angle, in whole degrees: the angle of a cell's diagonal
diagonal_angle == 63

----------------------------------------------------------------------------
(* decoration.rs *)

ARROW_RIGHT == 0
ARROW_DOWN == 90
ARROW_LEFT == 180
ARROW_UP == 270

arrow_angle_diagonal_up == 360 - diagonal_angle
arrow_angle_diagonal_down == diagonal_angle
arrow_angle_back_diagonal_up == 180 + diagonal_angle
arrow_angle_back_diagonal_down == 180 - diagonal_angle

\* a Decoration of the given kind at cell (x, y); gray is the level of
\* DecorationType::Gray, jump_from and jump_to are Options (<<>> is None)
Decoration(kind, x, y, angle) ==
    [pos |-> from_grid(x, y), kind |-> kind, angle |-> angle, gray |-> 0,
     jump_from |-> <<>>, jump_to |-> <<>>]

DecorationArrow(x, y, angle) == Decoration("Arrow", x, y, angle)
closed_point(x, y) == Decoration("ClosedPoint", x, y, 0)
open_point(x, y) == Decoration("OpenPoint", x, y, 0)
dotted_point(x, y) == Decoration("DottedPoint", x, y, 0)
shaded_point(x, y) == Decoration("ShadedPoint", x, y, 0)
xor_point(x, y) == Decoration("XorPoint", x, y, 0)
DecorationJump(x, y, from, to) ==
    [Decoration("Jump", x, y, 0) EXCEPT !.jump_from = <<from>>, !.jump_to = <<to>>]
DecorationGray(x, y, c) ==
    [Decoration("Gray", x, y, 0) EXCEPT !.gray = gray_level(c)]
DecorationTriangle(x, y, c) == Decoration("Triangle", x, y, tri_angle(c))

----------------------------------------------------------------------------
(* finder.rs: the decoration scanners.  Each visits the cells in row-major *)
(* order; what it does at a cell depends on the characters and the paths   *)
(* only.  per[k] is the list of decorations inserted at the k-th cell; the *)
(* cell is marked consumed when a decoration is inserted.                  *)

Decorated(u, ds) == [used |-> u, decorations |-> ds]

RECURSIVE DecoFold(_, _, _, _)
DecoFold(cells, per, u, ds) ==
    IF cells = <<>> THEN Decorated(u, ds)
    ELSE DecoFold(Tail(cells), Tail(per),
                  IF per[1] # <<>> THEN SetUsed(u, cells[1][1], cells[1][2]) ELSE u,
                  ds \o per[1])

\* arrow angles with left and right, and up and down, taken for each other
ArrowAngleMirrored(ps, x, y) ==
    LET c == Get(x, y)
    IN  CASE c = ">" ->
               IF left_ends_at(ps, x, y) \/ horizontal_passes_through(ps, x - 1, y)
               THEN <<ARROW_LEFT>>
               ELSE IF diagonal_up_ends_at(ps, x, y)
               THEN <<arrow_angle_diagonal_up>>
               ELSE IF back_diagonal_down_ends_at(ps, x, y)
               THEN <<arrow_angle_back_diagonal_down>>
               ELSE <<>>
          [] c = "<" ->
               IF right_ends_at(ps, x, y) \/ horizontal_passes_through(ps, x + 1, y)
               THEN <<ARROW_RIGHT>>
               ELSE IF diagonal_down_ends_at(ps, x, y)
               THEN <<arrow_angle_diagonal_down + 180>>
               ELSE IF back_diagonal_up_ends_at(ps, x, y)
               THEN <<arrow_angle_back_diagonal_up + 180>>
               ELSE <<>>
          [] c = "^" ->
               IF down_ends_at(ps, x, y) \/ vertical_passes_through(ps, x, y + 1)
               THEN <<ARROW_DOWN>> ELSE <<>>
          [] c = "v" \/ c = "V" ->
               IF up_ends_at(ps, x, y) \/ vertical_passes_through(ps, x, y - 1)
               THEN <<ARROW_UP>> ELSE <<>>
          [] OTHER -> <<>>

\* find_arrow_heads: the angle of the arrow at cell (x, y) as a list of at
\* most one angle; the tests are made in the order of the code
ArrowAngle(ps, x, y) ==
    LET c == Get(x, y)
    IN  CASE c = ">" ->
               IF left_ends_at(ps, x, y) \/ horizontal_passes_through(ps, x - 1, y)
               THEN <<ARROW_RIGHT>>
               ELSE IF diagonal_up_ends_at(ps, x, y)
               THEN <<arrow_angle_diagonal_up>>
               ELSE IF back_diagonal_down_ends_at(ps, x, y)
               THEN <<arrow_angle_back_diagonal_down>>
               ELSE <<>>
          [] c = "<" ->
               IF right_ends_at(ps, x, y) \/ horizontal_passes_through(ps, x + 1, y)
               THEN <<ARROW_LEFT>>
               ELSE IF diagonal_down_ends_at(ps, x, y)
               THEN <<arrow_angle_diagonal_down + 180>>
               ELSE IF back_diagonal_up_ends_at(ps, x, y)
               THEN <<arrow_angle_back_diagonal_up + 180>>
               ELSE <<>>
          [] c = "^" ->
               IF down_ends_at(ps, x, y) \/ vertical_passes_through(ps, x, y + 1)
               THEN <<ARROW_UP>> ELSE <<>>
          [] c = "v" \/ c = "V" ->
               IF up_ends_at(ps, x, y) \/ vertical_passes_through(ps, x, y - 1)
               THEN <<ARROW_DOWN>> ELSE <<>>
          [] OTHER -> <<>>

\* an arrow scan that emits an arrow for every test a '>' passes
ArrowAtEveryTest(ps, x, y) ==
    IF Get(x, y) = ">"
    THEN (IF left_ends_at(ps, x, y) \/ horizontal_passes_through(ps, x - 1, y)
          THEN <<DecorationArrow(x, y, ARROW_RIGHT)>> ELSE <<>>)
         \o (IF diagonal_up_ends_at(ps, x, y)
             THEN <<DecorationArrow(x, y, arrow_angle_diagonal_up)>> ELSE <<>>)
         \o (IF back_diagonal_down_ends_at(ps, x, y)
             THEN <<DecorationArrow(x, y, arrow_angle_back_diagonal_down)>> ELSE <<>>)
    ELSE [i \in 1..Len(ArrowAngle(ps, x, y)) |->
             DecorationArrow(x, y, ArrowAngle(ps, x, y)[i])]

ArrowAt(ps, x, y) ==
    [i \in 1..Len(ArrowAngle(ps, x, y)) |->
        DecorationArrow(x, y, ArrowAngle(ps, x, y)[i])]

find_arrow_heads(u, ps, ds) ==
    DecoFold(RowMajor,
             [k \in 1..Len(RowMajor) |-> ArrowAt(ps, RowMajor[k][1], RowMajor[k][2])],
             u, ds)

\* an adjacency test that looks at the four orthogonal neighbours only
AdjacentOrthogonally(x, y) ==
    \/ is_solid_h_line(Get(x - 1, y))
    \/ is_solid_h_line(Get(x + 1, y))
    \/ is_solid_v_line(Get(x, y - 1))
    \/ is_solid_v_line(Get(x, y + 1))

\* find_points: adjacent_to_line
adjacent_to_line(x, y) ==
    \/ is_solid_h_line(Get(x - 1, y))
    \/ is_solid_h_line(Get(x + 1, y))
    \/ is_solid_v_line(Get(x, y - 1))
    \/ is_solid_v_line(Get(x, y + 1))
    \/ is_solid_d_line(Get(x - 1, y + 1))
    \/ is_solid_d_line(Get(x + 1, y - 1))
    \/ is_solid_b_line(Get(x - 1, y - 1))
    \/ is_solid_b_line(Get(x + 1, y + 1))

PointAt(x, y) ==
    LET c == Get(x, y)
    IN  CASE c = "*" -> IF adjacent_to_line(x, y) THEN <<closed_point(x, y)>> ELSE <<>>
          [] c = "o" -> IF adjacent_to_line(x, y) THEN <<open_point(x, y)>> ELSE <<>>
          [] c = PT_DOTTED -> <<dotted_point(x, y)>>
          [] c = PT_OPEN -> <<open_point(x, y)>>
          [] c = PT_SHADED -> <<shaded_point(x, y)>>
          [] c = PT_CLOSED -> <<closed_point(x, y)>>
          [] c = PT_XOR -> <<xor_point(x, y)>>
          [] OTHER -> <<>>

find_points(u, ps, ds) ==
    DecoFold(RowMajor,
             [k \in 1..Len(RowMajor) |-> PointAt(RowMajor[k][1], RowMajor[k][2])],
             u, ds)

JumpAt(ps, x, y) ==
    LET c == Get(x, y)
    IN  IF (c = "(" \/ c = ")") /\ vertical_passes_through(ps, x, y)
        THEN <<DecorationJump(x, y, offset(from_grid(x, y), 0, -1),
                              offset(from_grid(x, y), 0, 1))>>
        ELSE <<>>

find_jumps(u, ps, ds) ==
    DecoFold(RowMajor,
             [k \in 1..Len(RowMajor) |-> JumpAt(ps, RowMajor[k][1], RowMajor[k][2])],
             u, ds)

\* a gray scan that skips the lightest fill glyph
GrayAtDarkOnly(x, y) ==
    IF is_gray(Get(x, y)) /\ Get(x, y) # GRAY1
    THEN <<DecorationGray(x, y, Get(x, y))>> ELSE <<>>

GrayAt(x, y) ==
    IF is_gray(Get(x, y)) THEN <<DecorationGray(x, y, Get(x, y))>> ELSE <<>>

find_gray_fills(u, ds) ==
    DecoFold(RowMajor,
             [k \in 1..Len(RowMajor) |-> GrayAt(RowMajor[k][1], RowMajor[k][2])],
             u, ds)

TriangleAt(x, y) ==
    IF is_tri(Get(x, y)) THEN <<DecorationTriangle(x, y, Get(x, y))>> ELSE <<>>

find_triangles(u, ds) ==
    DecoFold(RowMajor,
             [k \in 1..Len(RowMajor) |-> TriangleAt(RowMajor[k][1], RowMajor[k][2])],
             u, ds)

----------------------------------------------------------------------------
(* grid.rs: text extraction *)

RECURSIVE TextStartLoop(_, _, _)
TextStartLoop(u, x, y) ==
    IF ~(x < width) THEN <<>>
    ELSE IF Get(x, y) # SP /\ ~IsUsed(u, x, y) THEN <<x>>
    ELSE TextStartLoop(u, x + 1, y)

\* a text_start that does not look at the consumed flags
TextStartOfAnyCell(u, start_x, y) ==
    TextStartLoop([r \in 1..Len(u) |-> [c \in 1..Len(u[r]) |-> FALSE]], start_x, y)

\* Grid::text_start: Some(x) is <<x>>, None is <<>>
text_start(u, start_x, y) == TextStartLoop(u, start_x, y)

\* an `if` in the place of the `while`: one trailing blank is removed
TrimEndOnce(t) ==
    IF t # <<>> /\ t[Len(t)] = SP THEN SubSeq(t, 1, Len(t) - 1) ELSE t

RECURSIVE TrimEnd(_)
\* while result.ends_with(' ') { result.pop(); }
TrimEnd(t) ==
    IF t # <<>> /\ t[Len(t)] = SP THEN TrimEnd(SubSeq(t, 1, Len(t) - 1)) ELSE t

Extracted(t, u) == [text |-> t, used |-> u]

RECURSIVE ExtractLoop(_, _, _, _, _, _)
ExtractLoop(x, y, spaces, space_count, result, u) ==
    IF ~(x < width) THEN Extracted(TrimEnd(result), u)
    ELSE LET c == Get(x, y)
         IN  IF c = SP
             THEN IF space_count + 1 >= spaces /\ spaces > 0
                  THEN Extracted(TrimEnd(result), u)
                  ELSE ExtractLoop(x + 1, y, spaces, space_count + 1,
                                   Append(result, c), u)
             ELSE IF IsUsed(u, x, y)
             THEN Extracted(TrimEnd(result), u)
             ELSE ExtractLoop(x + 1, y, spaces, 0, Append(result, c),
                              SetUsed(u, x, y))

\* Grid::extract_text: the text and the bitmap it leaves
extract_text(u, start_x, y, spaces) == ExtractLoop(start_x, y, spaces, 0, <<>>, u)

(* The generator's text pass, modelled from spec.md sections 3 and 6: on   *)
(* every row, find the next text start, extract the run from there, undo   *)
(* the marker hiding, and go on behind it.                                 *)

Generated(u, ts) == [used |-> u, texts |-> ts]

RECURSIVE TextScan(_, _, _, _, _)
TextScan(x, y, spaces, u, ts) ==
    IF y >= height THEN Generated(u, ts)
    ELSE LET s == text_start(u, x, y)
         IN  IF s = <<>> THEN TextScan(0, y + 1, spaces, u, ts)
             ELSE LET e == extract_text(u, s[1], y, spaces)
                  IN  TextScan(s[1] + 1, y, spaces, e.used,
                               Append(ts, [x |-> s[1], y |-> y,
                                           text |-> unhide_markers(e.text)]))

generate_text(u, spaces) == TextScan(0, 0, spaces, u, <<>>)

----------------------------------------------------------------------------
(* Inputs *)

MaxW == 2      \* columns of a drawn input
MaxH == 2      \* lines of a drawn input
MaxInk == 2    \* non-blank characters of a drawn input
MaxLead == 1   \* leading white-space characters of a line of an indented input
MaxSpaces == 2  \* largest blank-run threshold of the options

\* The characters a drawn input takes its non-blank cells from: one palette
\* per input.
Palettes ==
    { {"+", "-", "|"},
      {"|", ".", "'", "+"},
      {"-", ">", "<"},
      {"|", "v", "^"},
      {"/", "\\"},
      {"-", BOXH, "=", DBLH},
      {"|", BOXV, DBLV} }

CanvasCells(w, h) == (1..w) \X (1..h)

\* the text of h lines of w characters that holds f[cell] at the cells of
\* f's domain and blanks elsewhere
CanvasText(w, h, f) ==
    Join([y \in 1..h |->
            [x \in 1..w |-> IF <<x, y>> \in DOMAIN f THEN f[<<x, y>>] ELSE SP]])

\* every text of at most MaxH lines of at most MaxW characters with at most
\* MaxInk non-blank characters, all of one palette
DrawnInputs ==
    UNION { UNION { UNION { { CanvasText(w, h, f) : f \in [S -> P] } :
                S \in {T \in SUBSET CanvasCells(w, h) : Cardinality(T) <= MaxInk} } :
            P \in Palettes } :
        w \in 1..MaxW, h \in 1..MaxH }

\* a line: at most MaxLead white-space characters of one, two or three
\* bytes, then nothing, a letter or a three-byte character
IndentedLines ==
    { lead \o body :
        lead \in UNION { [1..n -> {SP, NBSP, IDSP}] : n \in 0..MaxLead },
        body \in { <<>>, <<"a">>, <<KANJI>> } }

\* every text of one or two such lines
IndentedInputs ==
    IndentedLines \cup { a \o <<NL>> \o b : a \in IndentedLines, b \in IndentedLines }

\* inputs of the repository's tests and of spec.md section 8, and inputs
\* one size larger than the drawn ones
CaseInputs ==
    { <<>>,
      <<"-", "-", ">">>,
      <<"<", "-", "-">>,
      <<"-", "-", "-", ">">>,
      <<"|", NL, "|", NL, "v">>,
      <<"|", NL, "|", NL, "V">>,
      <<"^", NL, "|", NL, "|">>,
      <<"|", NL, "|", NL, "|">>,
      <<".", NL, "|", NL, "|">>,
      <<",", NL, "|", NL, "|", NL, "'">>,
      <<"|", NL, "|", NL, BACKTICK>>,
      <<"+", "-", "-", "+", NL, "|", SP, SP, "|", NL, "+", "-", "-", "+">>,
      <<"-", "+", "-">>,
      <<"+", "-", "-", NL, "|">>,
      <<SP, "/", NL, "/">>,
      <<SP, SP, "/", NL, SP, "/", NL, "/">>,
      <<"/", "/", NL, "/", "/">>,
      <<"/", "/", NL, SP, "/", NL, "/">>,
      <<"+">>,
      <<SP, SP, "/", NL, SP, "+", NL, "/">>,
      <<"=", "+", "=">>,
      <<NL, NL, NL>>,
      <<"\\", NL, SP, "\\">>,
      <<"o", "v", "e", "r">>,
      <<"-", "o">>,
      <<"o">>,
      <<"a", "_", "b">>,
      <<"~">>,
      <<"_">>,
      <<SP, SP, SP, NL, SP, SP, SP, NL, SP, SP, SP>>,
      <<SP, SP, "a", NL, IDSP, "b">>,
      <<SP, SP, "a", NL, NBSP, "b">>,
      <<KANJI, "o", "-">>,
      <<HID_o>>,
      <<"a", HID_v, SP, HID_V>>,
      <<"-", "-", ".", NL, "_", "_", "|">>,
      <<"_", "_", "_">>,
      <<SP, "|", NL, "-", "+", "-", NL, SP, "|">>,
      <<GRAY1, GRAY2, GRAY3, GRAY4>>,
      <<TRI1, TRI2, NL, TRI3, TRI4>>,
      <<GRAY4, "a", TRI4, NL, "|", TRI1, GRAY1>>,
      <<"|", NL, "(", NL, "|">>,
      <<"|", NL, "|", NL, ")", NL, "|", NL, "|">>,
      <<"-", "(", "-">>,
      <<"\\", NL, SP, "\\", NL, SP, SP, "v">>,
      <<"\\", NL, SP, "\\", NL, SP, SP, ">">>,
      <<"\\", NL, SP, "\\", NL, "-", "-", ">">>,
      <<"<", NL, SP, "\\", NL, SP, SP, "\\">>,
      <<SP, SP, "^", NL, SP, "/", NL, "/">>,
      <<"-", ".", "-", NL, SP, "|">>,
      <<SP, "|", NL, "-", "'">>,
      <<"|", NL, BACKTICK, "-">>,
      <<",", "-", NL, "+">>,
      <<"-", ".">>,
      <<"+", "-", "-", ">", NL, "|", NL, "|">>,
      <<"a", "o", "-">>,
      <<"|", SP, NL, "v", "a">>,
      <<SP, SP, "a", NL, NL, SP, SP, SP, "b">>,
      <<SP, SP, "a", NL, NL>>,
      <<KANJI, KANJI, KANJI>> }

\* the offsets of the eight neighbours of a cell
PointOffsets == ({-1, 0, 1} \X {-1, 0, 1}) \ {<<0, 0>>}

\* a point character in the middle of three lines of three characters and
\* one line character, vertex or letter on one of its eight neighbours
PointInputs ==
    { CanvasText(3, 3, (<<2, 2>> :> p) @@ (<<2 + d[1], 2 + d[2]>> :> n)) :
        p \in POINT_CHARS, d \in PointOffsets,
        n \in {"-", "|", "/", "\\", "+", "a"} }

\* the greatest width and height of a box
MaxBox == 5

\* a box of w columns and h rows: '+' corners, '-' edges, '|' sides
BoxText(w, h) ==
    Join([y \in 1..h |->
            [x \in 1..w |->
                IF y \in {1, h} THEN (IF x \in {1, w} THEN "+" ELSE "-")
                ELSE IF x \in {1, w} THEN "|" ELSE SP]])

\* every box with at least one dash in its edges and one bar in its sides
BoxInputs == { BoxText(w, h) : w \in 3..MaxBox, h \in 3..MaxBox }

PipelineInputs ==
    DrawnInputs \cup IndentedInputs \cup CaseInputs \cup PointInputs \cup BoxInputs

NoCall == [op |-> "none", x |-> 0, y |-> 0, ret |-> <<>>]

\* the local variables of an invocation of render_with_options and where
\* it stands
Locals(p, cs, u, w, h, ps, ds, ts, cl) ==
    [pc |-> p, chars |-> cs, used |-> u, width |-> w, height |-> h,
     paths |-> ps, decorations |-> ds, texts |-> ts, call |-> cl]

\* the loop variables before the first iteration of a scanner: line is the
\* index of the outer for loop, pos the cursor (x, y) inside a line (<<>>
\* between two lines), run the first cell of the run being walked (<<>>
\* outside a run), iters the number of loop iterations made so far
ScanIdle == [line |-> 0, pos |-> <<>>, run |-> <<>>, iters |-> 0]

InitWith(inputs) ==
    /\ input \in inputs
    /\ pc = "new"
    /\ chars = <<>>
    /\ used = <<>>
    /\ width = 0
    /\ height = 0
    /\ paths = <<>>
    /\ decorations = <<>>
    /\ texts = <<>>
    /\ call = NoCall
    /\ scan = ScanIdle
    /\ other = Locals("new", <<>>, <<>>, 0, 0, <<>>, <<>>, <<>>, NoCall)

Init == InitWith(PipelineInputs)

----------------------------------------------------------------------------
(* lib.rs: render_with_options, one action per call it makes *)

\* a path collection that is not made anew by an invocation: it is the one
\* the other invocation works on
PathSetShared == other.paths

\* PathSet::new(): an empty collection of the invocation's own
PathSetNew == <<>>

\* DecorationSet::new()
DecorationSetNew == <<>>

\* Grid::new(input), PathSet::new(), DecorationSet::new()
New ==
    /\ pc = "new"
    /\ \E g \in {GridNew(input)} :
           IF g.panic
           THEN /\ pc' = "panic"
                /\ UNCHANGED <<chars, used, width, height>>
           ELSE /\ pc' = "ready"
                /\ chars' = g.chars
                /\ used' = g.used
                /\ width' = g.width
                /\ height' = g.height
    /\ paths' = PathSetNew
    /\ decorations' = DecorationSetNew
    /\ UNCHANGED <<input, texts, call, scan, other>>

\* one path scanner of find_paths: r is what it returns
PathStep(from, to, r) ==
    /\ pc = from
    /\ pc' = to
    /\ used' = r.used
    /\ paths' = r.paths
    /\ UNCHANGED <<input, chars, width, height, decorations, texts, call, scan, other>>

\* one decoration scanner of find_decorations
DecorationStep(from, to, r) ==
    /\ pc = from
    /\ pc' = to
    /\ used' = r.used
    /\ decorations' = r.decorations
    /\ UNCHANGED <<input, chars, width, height, paths, texts, call, scan, other>>

FindSolidVerticalLines ==
    PathStep("ready", "double_v", find_solid_vertical_lines(used, paths))
FindDoubleVerticalLines ==
    PathStep("double_v", "solid_h", find_double_vertical_lines(used, paths))
FindSolidHorizontalLines ==
    PathStep("solid_h", "squiggle_h", find_solid_horizontal_lines(used, paths))
FindSquiggleHorizontalLines ==
    PathStep("squiggle_h", "double_h", find_squiggle_horizontal_lines(used, paths))
FindDoubleHorizontalLines ==
    PathStep("double_h", "backslash", find_double_horizontal_lines(used, paths))
FindBackslashDiagonals ==
    PathStep("backslash", "forward", find_backslash_diagonals(used, paths))
FindForwardSlashDiagonals ==
    PathStep("forward", "corners", find_forward_slash_diagonals(used, paths))
FindCurvedCorners ==
    PathStep("corners", "underscore", find_curved_corners(used, paths))
FindUnderscoreLines ==
    PathStep("underscore", "arrows", find_underscore_lines(used, paths))
FindArrowHeads ==
    DecorationStep("arrows", "points", find_arrow_heads(used, paths, decorations))
FindPoints ==
    DecorationStep("points", "jumps", find_points(used, paths, decorations))
FindJumps ==
    DecorationStep("jumps", "gray", find_jumps(used, paths, decorations))
FindGrayFills ==
    DecorationStep("gray", "triangles", find_gray_fills(used, decorations))
FindTriangles ==
    DecorationStep("triangles", "generate", find_triangles(used, decorations))

\* generate_svg: its text pass, with the blank-run threshold of the options
GenerateText ==
    /\ pc = "generate"
    /\ pc' = "done"
    /\ \E spaces \in 0..MaxSpaces :
          LET r == generate_text(used, spaces)
          IN  /\ used' = r.used
              /\ texts' = r.texts
              /\ call' = [op |-> "generate", x |-> spaces, y |-> 0, ret |-> <<>>]
    /\ UNCHANGED <<input, chars, width, height, paths, decorations, scan, other>>

Next ==
    \/ New
    \/ FindSolidVerticalLines
    \/ FindDoubleVerticalLines
    \/ FindSolidHorizontalLines
    \/ FindSquiggleHorizontalLines
    \/ FindDoubleHorizontalLines
    \/ FindBackslashDiagonals
    \/ FindForwardSlashDiagonals
    \/ FindCurvedCorners
    \/ FindUnderscoreLines
    \/ FindArrowHeads
    \/ FindPoints
    \/ FindJumps
    \/ FindGrayFills
    \/ FindTriangles
    \/ GenerateText

Spec == Init /\ [][Next]_vars

----------------------------------------------------------------------------
(* A caller of the Grid methods: Grid::new, then get, set_used and is_used *)
(* with arbitrary i32 coordinates, in any order.                           *)

Margin == 1    \* how far the coordinates of a call go beyond the grid

\* inputs of the unit tests of grid.rs, a ragged one and an empty one
ApiInputs ==
    { <<"A", "B", NL, "C", "D">>,
      <<"A", "B">>,
      <<"A", SP, "B", NL, SP, "C">>,
      <<"a", SP, SP, "b">>,
      <<>> }

Xs == (0 - Margin)..(width - 1 + Margin)
Ys == (0 - Margin)..(height - 1 + Margin)

Called(op, x, y, ret) == [op |-> op, x |-> x, y |-> y, ret |-> ret]

GetCall(x, y) ==
    /\ pc = "ready"
    /\ call' = Called("get", x, y, <<Get(x, y)>>)
    /\ UNCHANGED <<input, pc, chars, used, width, height, paths, decorations, texts, scan, other>>

SetUsedCall(x, y) ==
    /\ pc = "ready"
    /\ used' = SetUsed(used, x, y)
    /\ call' = Called("set_used", x, y, <<>>)
    /\ UNCHANGED <<input, pc, chars, width, height, paths, decorations, texts, scan, other>>

IsUsedCall(x, y) ==
    /\ pc = "ready"
    /\ call' = Called("is_used", x, y, <<IsUsed(used, x, y)>>)
    /\ UNCHANGED <<input, pc, chars, used, width, height, paths, decorations, texts, scan, other>>

\* text_start(x, y, spaces): the threshold is not used by the method
TextStartCall(x, y) ==
    /\ pc = "ready"
    /\ call' = Called("text_start", x, y, text_start(used, x, y))
    /\ UNCHANGED <<input, pc, chars, used, width, height, paths, decorations, texts, scan, other>>

\* extract_text(x, y, spaces): ret holds the returned text and the threshold
ExtractTextCall(x, y, spaces) ==
    /\ pc = "ready"
    /\ \E e \in {extract_text(used, x, y, spaces)} :
           /\ used' = e.used
           /\ call' = Called("extract_text", x, y, <<e.text, spaces>>)
    /\ UNCHANGED <<input, pc, chars, width, height, paths, decorations, texts, scan, other>>

InitApi == InitWith(ApiInputs)

NextApi ==
    \/ New
    \/ \E x \in Xs, y \in Ys : GetCall(x, y)
    \/ \E x \in Xs, y \in Ys : SetUsedCall(x, y)
    \/ \E x \in Xs, y \in Ys : IsUsedCall(x, y)
    \/ \E x \in Xs, y \in Ys : TextStartCall(x, y)
    \/ \E x \in Xs, y \in Ys, spaces \in 0..MaxSpaces : ExtractTextCall(x, y, spaces)

SpecApi == InitApi /\ [][NextApi]_vars

----------------------------------------------------------------------------
(* Two invocations of render_with_options on the same input, interleaved    *)
(* in any way: one runs, the other is suspended with its local variables    *)
(* in `other`, and a switch lets the other one run.                         *)

\* the running invocation is suspended and the suspended one runs on
Switch ==
    /\ other' = Locals(pc, chars, used, width, height, paths, decorations,
                       texts, call)
    /\ pc' = other.pc
    /\ chars' = other.chars
    /\ used' = other.used
    /\ width' = other.width
    /\ height' = other.height
    /\ paths' = other.paths
    /\ decorations' = other.decorations
    /\ texts' = other.texts
    /\ call' = other.call
    /\ UNCHANGED <<input, scan>>

TwoInputs == CaseInputs \cup PointInputs

InitTwo == InitWith(TwoInputs)

NextTwo == Next \/ Switch

SpecTwo == InitTwo /\ [][NextTwo]_vars

----------------------------------------------------------------------------
(* chars.rs: a caller of the classifier, which classifies one character.    *)

\* the glyphs the classifier knows
KnownGlyphs ==
    ARROW_HEAD_CHARS \cup POINT_CHARS \cup JUMP_CHARS \cup VERTEX_CHARS
        \cup GRAY_CHARS \cup TRI_CHARS
        \cup {"-", "~", "=", "|", "/", "\\", BOXH, BOXV, DBLH, DBLV, DIAGF, DIAGB}

\* the characters of the model
Alphabet ==
    KnownGlyphs \cup AsciiLetters
        \cup {SP, TAB, NBSP, IDSP, KANJI, HID_o, HID_v, HID_V, "_", "#", "0", "9",
              "!", ":", ";", "?", "@", "[", "]", "{", "}", "&", "%", "$", "\""}

\* what every function of chars.rs returns for character c
Classification(c) ==
    [is_vertex |-> is_vertex(c),
     is_undirected_vertex |-> is_undirected_vertex(c),
     is_top_vertex |-> is_top_vertex(c),
     is_bottom_vertex |-> is_bottom_vertex(c),
     is_top_vertex_or_decoration |-> is_top_vertex_or_decoration(c),
     is_bottom_vertex_or_decoration |-> is_bottom_vertex_or_decoration(c),
     is_vertex_or_left_decoration |-> is_vertex_or_left_decoration(c),
     is_vertex_or_right_decoration |-> is_vertex_or_right_decoration(c),
     is_solid_h_line |-> is_solid_h_line(c),
     is_squiggle_h_line |-> is_squiggle_h_line(c),
     is_double_h_line |-> is_double_h_line(c),
     is_any_h_line |-> is_any_h_line(c),
     is_solid_v_line |-> is_solid_v_line(c),
     is_double_v_line |-> is_double_v_line(c),
     is_solid_d_line |-> is_solid_d_line(c),
     is_solid_b_line |-> is_solid_b_line(c),
     is_gray |-> is_gray(c),
     is_tri |-> is_tri(c),
     is_arrow_head |-> is_arrow_head(c),
     is_point |-> is_point(c),
     is_jump |-> is_jump(c),
     is_decoration |-> is_decoration(c),
     is_ascii_letter |-> is_ascii_letter(c),
     gray_level |-> gray_level(c),
     tri_angle |-> tri_angle(c)]

\* the character is classified
Classify ==
    /\ pc = "classify"
    /\ pc' = "classified"
    /\ call' = Called("classify", 0, 0, Classification(input[1]))
    /\ UNCHANGED <<input, chars, used, width, height, paths, decorations, texts,
                   scan, other>>

\* the caller goes on to the next character
NextChar ==
    /\ pc = "classified"
    /\ pc' = "classify"
    /\ input' \in {<<c>> : c \in Alphabet}
    /\ call' = NoCall
    /\ UNCHANGED <<chars, used, width, height, paths, decorations, texts, scan,
                   other>>

InitChars ==
    /\ input \in {<<c>> : c \in Alphabet}
    /\ pc = "classify"
    /\ chars = <<>>
    /\ used = <<>>
    /\ width = 0
    /\ height = 0
    /\ paths = <<>>
    /\ decorations = <<>>
    /\ texts = <<>>
    /\ call = NoCall
    /\ scan = ScanIdle
    /\ other = Locals("new", <<>>, <<>>, 0, 0, <<>>, <<>>, <<>>, NoCall)

NextChars == Classify \/ NextChar

SpecChars == InitChars /\ [][NextChars]_vars

----------------------------------------------------------------------------
(* finder.rs, one loop iteration at a time.  pc names the scanner that is   *)
(* running ("ready" is find_solid_vertical_lines, the first one); scan      *)
(* holds its loop variables.  Every scanner is an outer for loop over lines *)
(* (columns, rows or diagonals) around a walk along the line; the cell      *)
(* scanners (curved corners and the decorations) walk with a for loop too.  *)

\* an order of calls in which find_arrow_heads runs before
\* find_underscore_lines
ScanOrderArrowsEarly ==
    <<"ready", "double_v", "solid_h", "squiggle_h", "double_h", "backslash",
      "forward", "corners", "arrows", "underscore", "points", "jumps", "gray",
      "triangles", "generate">>

ScanOrder ==
    <<"ready", "double_v", "solid_h", "squiggle_h", "double_h", "backslash",
      "forward", "corners", "underscore", "arrows", "points", "jumps", "gray",
      "triangles", "generate">>

Scanners == {ScanOrder[i] : i \in 1..(Len(ScanOrder) - 1)}

\* the scanner called after scanner p, "generate" after the last one
ScannerAfter(p) == ScanOrder[(CHOOSE i \in 1..(Len(ScanOrder) - 1) : ScanOrder[i] = p) + 1]

VerticalScanners == {"ready", "double_v"}
DiagonalScanners == {"backslash", "forward"}

\* the number of iterations of the outer for loop (a Rust range a..b with
\* b < a is empty)
ScanLines(p) ==
    IF p \in VerticalScanners THEN width
    ELSE IF p \in DiagonalScanners THEN Max(width + height - 1, 0)
    ELSE height

\* the first cursor of a line
LineStart(p, line) ==
    IF p \in VerticalScanners THEN <<line, 0>>
    ELSE IF p = "backslash" THEN BackslashStart(line)
    ELSE IF p = "forward" THEN ForwardStart(line)
    ELSE <<0, line>>

\* the condition of the loop that walks along a line
InLine(p, pos) ==
    IF p \in VerticalScanners THEN pos[2] < height
    ELSE IF p = "backslash" THEN pos[1] < width /\ pos[2] < height
    ELSE IF p = "forward" THEN pos[1] >= 0 /\ pos[2] < height
    ELSE pos[1] < width

\* a cursor that stays on a blank cell
AdvanceUnlessBlank(p, pos) ==
    IF Get(pos[1], pos[2]) = SP THEN pos
    ELSE IF p \in VerticalScanners THEN <<pos[1], pos[2] + 1>>
    ELSE IF p = "backslash" THEN <<pos[1] + 1, pos[2] + 1>>
    ELSE IF p = "forward" THEN <<pos[1] - 1, pos[2] + 1>>
    ELSE <<pos[1] + 1, pos[2]>>

\* the cursor after an iteration: y += 1, x += 1, both, or x -= 1 and y += 1
Advance(p, pos) ==
    IF p \in VerticalScanners THEN <<pos[1], pos[2] + 1>>
    ELSE IF p = "backslash" THEN <<pos[1] + 1, pos[2] + 1>>
    ELSE IF p = "forward" THEN <<pos[1] - 1, pos[2] + 1>>
    ELSE <<pos[1] + 1, pos[2]>>

\* a test that lets a blank start a run, too
StartsRunOrBlank(p, c) ==
    \/ c = SP
    \/ CASE p = "ready" -> is_solid_v_line(c)
          [] p = "double_v" -> c = DBLV
          [] p = "solid_h" -> SolidHStart(c)
          [] p = "squiggle_h" -> c = "~"
          [] p = "double_h" -> c = "=" \/ c = DBLH
          [] p = "backslash" -> is_solid_b_line(c)
          [] p = "forward" -> is_solid_d_line(c)
          [] p = "underscore" -> c = "_"
          [] OTHER -> FALSE

\* the test that starts a run of scanner p on character c
StartsRun(p, c) ==
    CASE p = "ready" -> is_solid_v_line(c)
      [] p = "double_v" -> c = DBLV
      [] p = "solid_h" -> SolidHStart(c)
      [] p = "squiggle_h" -> c = "~"
      [] p = "double_h" -> c = "=" \/ c = DBLH
      [] p = "backslash" -> is_solid_b_line(c)
      [] p = "forward" -> is_solid_d_line(c)
      [] p = "underscore" -> c = "_"
      [] OTHER -> FALSE

\* the test of the inner loop that walks a run
ContinuesRun(p, c) ==
    IF p = "solid_h" THEN SolidHCont(c) ELSE StartsRun(p, c)

\* what scanner p inserts for the run from cell s to cell e
RunPaths(p, s, e) ==
    CASE p = "ready" ->
             IF SolidVKeep(s[2], e[2])
             THEN <<SolidVPath(s[1], s[2], e[2])>> ELSE <<>>
      [] p = "double_v" ->
             IF DoubleVKeep(s[2], e[2])
             THEN <<with_double(line_from_grid(s[1], s[2], s[1], e[2]), TRUE)>>
             ELSE <<>>
      [] p = "solid_h" ->
             IF SolidHKeep(s[1], e[1])
             THEN <<SolidHPath(s[2], s[1], e[1])>> ELSE <<>>
      [] p = "squiggle_h" ->
             IF SquiggleKeep(s[1], e[1])
             THEN <<with_squiggle(line_from_grid(s[1], s[2], e[1], s[2]), TRUE)>>
             ELSE <<>>
      [] p = "double_h" ->
             IF DoubleHKeep(s[1], e[1])
             THEN <<with_double(line_from_grid(s[1], s[2], e[1], s[2]), TRUE)>>
             ELSE <<>>
      [] p = "backslash" ->
             IF BackslashKeep(s[1], e[1])
             THEN <<line_from_grid(s[1], s[2], e[1], e[2])>> ELSE <<>>
      [] p = "forward" ->
             IF ForwardKeep(s[1], e[1])
             THEN <<ForwardPath(s[1], s[2], e[1], e[2])>> ELSE <<>>
      [] p = "underscore" ->
             IF UnderscoreKeep(s[1], e[1])
             THEN <<PathLine(offset(from_grid(s[1], s[2]), 0, 1),
                             offset(from_grid(e[1], e[2]), 0, 1))>>
             ELSE <<>>

\* what a cell scanner inserts at cell (x, y)
CellPaths(p, x, y) == IF p = "corners" THEN CornerCurves(x, y) ELSE <<>>
CellDecorations(p, x, y) ==
    CASE p = "arrows" -> ArrowAt(paths, x, y)
      [] p = "points" -> PointAt(x, y)
      [] p = "jumps" -> JumpAt(paths, x, y)
      [] p = "gray" -> GrayAt(x, y)
      [] p = "triangles" -> TriangleAt(x, y)
      [] OTHER -> <<>>

\* the outer for loop takes its next line
EnterLine ==
    /\ pc \in Scanners
    /\ scan.pos = <<>>
    /\ scan.line < ScanLines(pc)
    /\ scan' = [scan EXCEPT !.pos = LineStart(pc, scan.line),
                            !.iters = scan.iters + 1]
    /\ UNCHANGED <<input, pc, chars, used, width, height, paths, decorations,
                   texts, call, other>>

\* the walk along the line is over: the outer loop goes on
LeaveLine ==
    /\ pc \in Scanners
    /\ scan.pos # <<>>
    /\ ~InLine(pc, scan.pos)
    /\ scan' = [scan EXCEPT !.line = scan.line + 1, !.pos = <<>>]
    /\ UNCHANGED <<input, pc, chars, used, width, height, paths, decorations,
                   texts, call, other>>

\* an iteration on a cell that starts no run: the else branch of a line
\* scanner, the body of a cell scanner
SkipCell ==
    /\ pc \in Scanners
    /\ scan.pos # <<>>
    /\ InLine(pc, scan.pos)
    /\ scan.run = <<>>
    /\ ~StartsRun(pc, Get(scan.pos[1], scan.pos[2]))
    /\ \E x \in {scan.pos[1]}, y \in {scan.pos[2]} :
          /\ paths' = paths \o CellPaths(pc, x, y)
          /\ decorations' = decorations \o CellDecorations(pc, x, y)
          /\ used' = IF CellPaths(pc, x, y) # <<>> \/ CellDecorations(pc, x, y) # <<>>
                     THEN SetUsed(used, x, y) ELSE used
    /\ scan' = [scan EXCEPT !.pos = Advance(pc, scan.pos),
                            !.iters = scan.iters + 1]
    /\ UNCHANGED <<input, pc, chars, width, height, texts, call, other>>

\* an iteration of the inner loop on a cell of a run: the cell is marked
\* consumed and the cursor moves on; when the loop condition fails on the
\* next cell the run is over and its path is inserted if it is kept
RunCell ==
    /\ pc \in Scanners
    /\ scan.pos # <<>>
    /\ InLine(pc, scan.pos)
    /\ \/ scan.run = <<>> /\ StartsRun(pc, Get(scan.pos[1], scan.pos[2]))
       \/ scan.run # <<>>
    /\ used' = SetUsed(used, scan.pos[1], scan.pos[2])
    /\ \E s \in {IF scan.run = <<>> THEN scan.pos ELSE scan.run},
          next \in {Advance(pc, scan.pos)} :
          IF InLine(pc, next) /\ ContinuesRun(pc, Get(next[1], next[2]))
          THEN /\ scan' = [scan EXCEPT !.pos = next, !.run = s,
                                       !.iters = scan.iters + 1]
               /\ paths' = paths
          ELSE /\ scan' = [scan EXCEPT !.pos = next, !.run = <<>>,
                                       !.iters = scan.iters + 1]
               /\ paths' = paths \o RunPaths(pc, s, scan.pos)
    /\ UNCHANGED <<input, pc, chars, width, height, decorations, texts, call, other>>

\* the outer loop is over: the scanner returns and the next one is called
ReturnFromScanner ==
    /\ pc \in Scanners
    /\ scan.pos = <<>>
    /\ scan.line >= ScanLines(pc)
    /\ pc' = ScannerAfter(pc)
    /\ scan' = ScanIdle
    /\ UNCHANGED <<input, chars, used, width, height, paths, decorations,
                   texts, call, other>>

\* inputs of the walk: the inputs of the tests, every point input, and
\* grids without a column or without a row
ScanInputs == CaseInputs \cup PointInputs \cup {<<NL, NL>>}

InitScan == InitWith(ScanInputs)

\* a step of the scanner that is running
ScanStep ==
    \/ EnterLine
    \/ LeaveLine
    \/ SkipCell
    \/ RunCell
    \/ ReturnFromScanner

NextScan == New \/ ScanStep

\* the program is sequential code that keeps running: once the grid is
\* built, a step that can be taken is taken
SpecScan == InitScan /\ [][NextScan]_vars /\ WF_vars(ScanStep)

----------------------------------------------------------------------------
(* Properties *)

InGrid(x, y) == 0 <= x /\ x < width /\ 0 <= y /\ y < height

\* C1: Grid::get(x, y) returns ' ' for every (x, y) outside
\* [0,width) x [0,height), negative coordinates included, returns the
\* stored character for every pair inside, and never panics.
C1_GetTotal ==
    call.op = "get" =>
        /\ call.ret[1] # PanicValue
        /\ InGrid(call.x, call.y) => call.ret[1] = chars[call.y + 1][call.x + 1]
        /\ ~InGrid(call.x, call.y) => call.ret[1] = SP

\* C1 witness: get was called with a negative column and a row beyond the
\* last one of a grid that has cells, and returned the blank.
C1_Witness ==
    /\ call.op = "get"
    /\ width > 0
    /\ call.x < 0
    /\ call.y >= height
    /\ call.ret = <<SP>>

\* the bitmap u with exactly cell (x, y) set, when (x, y) is a cell
MarkedAt(u, x, y) ==
    [r \in 1..Len(u) |->
        [c \in 1..Len(u[r]) |-> u[r][c] \/ (c = x + 1 /\ r = y + 1)]]

\* C2: set_used(x, y) sets the consumed flag of exactly cell (x, y), is a
\* no-op for coordinates outside the grid, and a second call changes
\* nothing; is_used(x, y) is false outside the grid and for every cell
\* never marked (a flag is set only by set_used on that cell, which
\* extract_text calls too, and every flag is clear after Grid::new).
C2_SetUsedIsUsed ==
    [][ /\ (pc = "new" /\ pc' = "ready") =>
              \A r \in 1..height', c \in 1..width' : ~used'[r][c]
        /\ (pc = "ready" /\ call'.op = "set_used") =>
              /\ used' = MarkedAt(used, call'.x, call'.y)
              /\ ~InGrid(call'.x, call'.y) => used' = used
              /\ SetUsed(used', call'.x, call'.y) = used'
              /\ chars' = chars /\ width' = width /\ height' = height
        /\ (pc = "ready" /\ call'.op \notin {"set_used", "extract_text"}) =>
              used' = used
        /\ (pc = "ready" /\ call'.op = "is_used") =>
              call'.ret[1] = IF InGrid(call'.x, call'.y)
                             THEN used[call'.y + 1][call'.x + 1]
                             ELSE FALSE
      ]_vars

\* C2 witness: is_used returned true for a marked cell while another cell
\* of the grid is still unmarked.
C2_Witness ==
    /\ call.op = "is_used"
    /\ InGrid(call.x, call.y)
    /\ call.ret = <<TRUE>>
    /\ \E r \in 1..height, c \in 1..width : ~used[r][c]

\* C3: for every input string, Grid::new followed by find_paths and
\* find_decorations completes without a panic, lines with multi-byte
\* leading whitespace included.  Grid::new panics in remove_leading_space
\* when the common indentation, counted in bytes, ends inside a multi-byte
\* character of another line.
C3_NeverPanics == pc # "panic"

\* C3: the input of the failing run has a line indented by ASCII blanks and
\* a line that starts with a multi-byte whitespace character.
C3_PanicReached ==
    /\ pc = "panic"
    /\ input = <<SP, SP, "a", NL, IDSP, "b">>

Sign(n) == IF n > 0 THEN 1 ELSE IF n < 0 THEN -1 ELSE 0
Abs(n) == IF n < 0 THEN 0 - n ELSE n

\* the cell a position lies in (the half cell of an underscore path and of
\* a curve's end belongs to the cell of the glyph)
CellOf(v) == <<v.x \div 2, v.y \div 2>>

\* the cells a path claims: the cells from its first end to its last for a
\* straight path, the cell of the vertex glyph for a curve
PathCells(p) ==
    IF p.ctrl # <<>> THEN {CellOf(p.ctrl[1])}
    ELSE LET a == CellOf(p.a)
             b == CellOf(p.b)
             n == Max(Abs(b[1] - a[1]), Abs(b[2] - a[2]))
         IN  {<<a[1] + k * Sign(b[1] - a[1]), a[2] + k * Sign(b[2] - a[2])>> :
                 k \in 0..n}

\* the cells attributed to the paths ps and the decorations ds
Attributed(ps, ds) ==
    UNION {PathCells(ps[i]) : i \in 1..Len(ps)}
        \cup {CellOf(ds[i].pos) : i \in 1..Len(ds)}

\* the cells claimed by what a step adds to the paths and the decorations
\* (an action-level expression)
NewlyClaimed ==
    UNION {PathCells(paths'[i]) : i \in (Len(paths) + 1)..Len(paths')}
        \cup {CellOf(decorations'[i].pos) :
                  i \in (Len(decorations) + 1)..Len(decorations')}

\* C4, as stated: once a cell has been marked consumed, no scanner that
\* runs later emits a path or a decoration claiming that cell.
C4_NoClaimOfConsumed ==
    [][ \A c \in NewlyClaimed : ~IsUsed(used, c[1], c[2]) ]_vars

\* C4, amended: no scanner emits a path or a decoration claiming a cell
\* that an earlier scanner marked consumed, except that a path of the
\* solid-horizontal scanner may run through or end on a '+' cell that the
\* solid-vertical scanner has consumed.
C4_NoClaimOfConsumedButJunction ==
    [][ \A c \in NewlyClaimed :
            IsUsed(used, c[1], c[2]) =>
                pc = "solid_h" /\ Get(c[1], c[2]) = "+" ]_vars

\* C4 witness: the scanners have run, and the solid-horizontal scanner has
\* emitted a path over a '+' that an earlier vertical path claims too.
C4_Witness ==
    /\ pc = "done"
    /\ \E i, j \in 1..Len(paths) :
           /\ is_vertical(paths[i]) /\ is_horizontal(paths[j]) /\ i < j
           /\ \E c \in PathCells(paths[i]) \cap PathCells(paths[j]) :
                  Get(c[1], c[2]) = "+" /\ IsUsed(used, c[1], c[2])

\* the cells that text_start finds, and extract_text then takes, on the
\* bitmap u: a text run starts or goes on at every non-blank cell that is
\* not consumed
TextCells(u) ==
    {c \in {<<x, y>> : x \in 0..(width - 1), y \in 0..(height - 1)} :
        text_start(u, c[1], c[2]) = <<c[1]>>}

\* C5: after find_paths and find_decorations, the cells attributed to
\* paths (run cells and the vertex cells an end was extended onto) and to
\* decorations are disjoint from the cells surfaced as text.
C5_AttributedDisjointFromText ==
    pc = "generate" => Attributed(paths, decorations) \cap TextCells(used) = {}

\* C5: the run on a dot above two bars reaches the text pass with the
\* dot's cell both an end of the path and a text cell.
C5_DotIsPathAndText ==
    /\ pc = "done"
    /\ input = <<".", NL, "|", NL, "|">>
    /\ paths = <<line_from_grid(0, 0, 0, 2)>>
    /\ \E i \in 1..Len(texts) : texts[i].x = 0 /\ texts[i].y = 0

AllCells == {<<x, y>> : x \in 0..(width - 1), y \in 0..(height - 1)}
NonBlankCells == {c \in AllCells : Get(c[1], c[2]) # SP}

Neighbours(c) ==
    {<<c[1] + dx, c[2] + dy>> : dx \in {-1, 0, 1}, dy \in {-1, 0, 1}} \ {c}

\* a line-drawing character with no continuation: every neighbour of the
\* cell is blank or a letter
LoneLineCells ==
    {c \in AllCells :
        /\ Get(c[1], c[2]) \in {"+", "|", "-", "~", "_", "/", "\\"}
        /\ \A n \in Neighbours(c) :
               Get(n[1], n[2]) = SP \/ is_ascii_letter(Get(n[1], n[2]))}

\* C6: a line-drawing character whose run is discarded as too short (a
\* lone '+', '|', '-', '~', '_', '/' or '\') produces no path and no
\* decoration and remains unconsumed, so that it is surfaced as text.
C6_LoneCharStaysText ==
    pc = "generate" =>
        \A c \in LoneLineCells :
            /\ c \notin Attributed(paths, decorations)
            /\ ~IsUsed(used, c[1], c[2])
            /\ c \in TextCells(used)

\* C6: the underscore of "a_b" yields no path, and the text pass surfaces
\* "a" and "b" without it.
C6_UnderscoreLost ==
    /\ pc = "done"
    /\ input = <<"a", "_", "b">>
    /\ paths = <<>>
    /\ decorations = <<>>
    /\ \A i \in 1..Len(texts) : "_" \notin {texts[i].text[k] : k \in 1..Len(texts[i].text)}

\* C7: after find_paths, a grid whose only non-blank cell is one
\* solid-horizontal ('-', BOXH) or solid-vertical ('|', BOXV) character has
\* no path; a grid whose only non-blank cell is one double-horizontal
\* ('=', DBLH) or double-vertical (DBLV) character has exactly one path,
\* flagged double-stroke, on that cell.
C7_RunMinimums ==
    (pc = "arrows" /\ Cardinality(NonBlankCells) = 1) =>
        \A c \in NonBlankCells :
            /\ Get(c[1], c[2]) \in {"-", BOXH, "|", BOXV} => paths = <<>>
            /\ Get(c[1], c[2]) \in {"=", DBLH, DBLV} =>
                   /\ Len(paths) = 1
                   /\ paths[1].double
                   /\ PathCells(paths[1]) = {c}

\* C7 witness: find_paths has run on a grid of several cells whose only
\* non-blank cell is a '|', and there is no path.
C7_Witness ==
    /\ pc = "arrows"
    /\ Cardinality(AllCells) > 1
    /\ Cardinality(NonBlankCells) = 1
    /\ \E c \in NonBlankCells : Get(c[1], c[2]) = "|"
    /\ paths = <<>>

\* the maximal solid vertical runs of two cells or more: column, first
\* row, last row
SolidVRuns ==
    {r \in (0..(width - 1)) \X (0..(height - 1)) \X (0..(height - 1)) :
        /\ r[2] < r[3]
        /\ \A k \in r[2]..r[3] : is_solid_v_line(Get(r[1], k))
        /\ ~is_solid_v_line(Get(r[1], r[2] - 1))
        /\ ~is_solid_v_line(Get(r[1], r[3] + 1))}

ExtendedVPath(r) ==
    [a |-> from_grid(r[1], IF is_top_vertex(Get(r[1], r[2] - 1))
                           THEN r[2] - 1 ELSE r[2]),
     b |-> from_grid(r[1], IF is_bottom_vertex(Get(r[1], r[3] + 1))
                           THEN r[3] + 1 ELSE r[3]),
     ctrl |-> <<>>, double |-> FALSE, squiggle |-> FALSE]

\* C8: the solid-vertical scanner emits, for every maximal solid vertical
\* run of two cells or more, one path that starts on the cell above the
\* run when that cell holds a top vertex and on the run's first cell
\* otherwise, and ends on the cell below when it holds a bottom vertex and
\* on the run's last cell otherwise, and no other path; a '.' above two
\* '|' yields exactly the path from (0,0) to (0,2).
C8_VertexExtension ==
    pc = "double_v" =>
        /\ PathsOf(paths) = {ExtendedVPath(r) : r \in SolidVRuns}
        /\ Len(paths) = Cardinality(SolidVRuns)
        /\ input = <<".", NL, "|", NL, "|">> =>
               /\ Len(paths) = 1
               /\ CellOf(paths[1].a) = <<0, 0>> /\ paths[1].a = from_grid(0, 0)
               /\ CellOf(paths[1].b) = <<0, 2>> /\ paths[1].b = from_grid(0, 2)

\* C8 witness: the solid-vertical scanner has run on the dot above two
\* bars and has emitted a path whose first end is on the dot's cell.
C8_Witness ==
    /\ pc = "double_v"
    /\ input = <<".", NL, "|", NL, "|">>
    /\ Len(paths) = 1
    /\ Get(0, 0) = "."
    /\ CellOf(paths[1].a) = <<0, 0>>

\* C9: "-->" yields exactly one path (the dashes) and exactly one
\* decoration, an arrow of angle 0; "<--" yields exactly one decoration,
\* an arrow of angle 180; an arrow on a 'v' or a 'V' has angle 90 and an
\* arrow on a '^' has angle 270.
C9_ArrowDirection ==
    pc = "generate" =>
        /\ input = <<"-", "-", ">">> =>
               /\ Len(paths) = 1
               /\ PathCells(paths[1]) = {<<0, 0>>, <<1, 0>>}
               /\ Len(decorations) = 1
               /\ decorations[1].kind = "Arrow"
               /\ decorations[1].angle = 0
               /\ CellOf(decorations[1].pos) = <<2, 0>>
        /\ input = <<"<", "-", "-">> =>
               /\ Len(decorations) = 1
               /\ decorations[1].kind = "Arrow"
               /\ decorations[1].angle = 180
               /\ CellOf(decorations[1].pos) = <<0, 0>>
        /\ \A i \in 1..Len(decorations) :
               LET d == decorations[i]
                   c == Get(CellOf(d.pos)[1], CellOf(d.pos)[2])
               IN  d.kind = "Arrow" =>
                       /\ c \in {"v", "V"} => d.angle = 90
                       /\ c = "^" => d.angle = 270
        /\ input \in {<<"|", NL, "|", NL, "v">>, <<"|", NL, "|", NL, "V">>,
                       <<"^", NL, "|", NL, "|">>} =>
               Len(decorations) = 1 /\ decorations[1].kind = "Arrow"

\* C9 witness: the decoration scanners have run on "-->" and have found
\* one arrow.
C9_Witness ==
    /\ pc = "generate"
    /\ input = <<"-", "-", ">">>
    /\ Len(decorations) = 1
    /\ decorations[1].kind = "Arrow"

\* C10: every path the forward-diagonal scanner emits has its first end on
\* the bottom-left cell of a maximal run of '/' of two cells or more and
\* its second end on the run's top-right cell: first.x < second.x and
\* first.y > second.y.
C10_ForwardOrientation ==
    [][ pc = "forward" =>
          \A i \in (Len(paths) + 1)..Len(paths') :
              LET a == CellOf(paths'[i].a)
                  b == CellOf(paths'[i].b)
              IN  /\ paths'[i].a = from_grid(a[1], a[2])
                  /\ paths'[i].b = from_grid(b[1], b[2])
                  /\ a[1] < b[1]
                  /\ a[2] > b[2]
                  /\ b[1] - a[1] = a[2] - b[2]
                  /\ \A k \in 0..(b[1] - a[1]) :
                         is_solid_d_line(Get(a[1] + k, a[2] - k))
                  /\ ~is_solid_d_line(Get(a[1] - 1, a[2] + 1))
                  /\ ~is_solid_d_line(Get(b[1] + 1, b[2] - 1)) ]_vars

\* C10 witness: the forward-diagonal scanner has emitted the path of a run
\* found on a sweep that starts on the right column below the top row.
C10_Witness ==
    /\ pc = "corners"
    /\ input = <<"/", "/", NL, SP, "/", NL, "/">>
    /\ paths = <<line_from_grid(0, 2, 1, 1)>>

\* the kinds of the point decorations
PointKinds == {"ClosedPoint", "OpenPoint", "DottedPoint", "ShadedPoint", "XorPoint"}

\* C11: for the input "over" no arrow and no point decoration is produced
\* and the one text run, the placeholders turned back into their marker
\* characters, reads exactly "over"; for a 'v' directly below two '|'
\* exactly one decoration is produced, an arrow of angle 90 on the cell of
\* the 'v', that cell is consumed and no text remains.
C11_MarkerHidingEndToEnd ==
    pc = "done" =>
        /\ input = <<"o", "v", "e", "r">> =>
               /\ \A i \in 1..Len(decorations) :
                      decorations[i].kind \notin PointKinds \cup {"Arrow"}
               /\ Len(texts) = 1
               /\ texts[1].text = <<"o", "v", "e", "r">>
        /\ input = <<"|", NL, "|", NL, "v">> =>
               /\ Len(decorations) = 1
               /\ decorations[1].kind = "Arrow"
               /\ decorations[1].angle = 90
               /\ CellOf(decorations[1].pos) = <<0, 2>>
               /\ IsUsed(used, 0, 2)
               /\ texts = <<>>

\* C11 witness: the run on "over" is done; the grid holds the placeholders
\* of the 'o' and the 'v', and the text run reads "over".
C11_Witness ==
    /\ pc = "done"
    /\ input = <<"o", "v", "e", "r">>
    /\ chars = << <<HID_o, HID_v, "e", "r">> >>
    /\ Len(texts) = 1
    /\ texts[1].text = <<"o", "v", "e", "r">>

\* the decorations attributed to cell c, as the set of their indices
DecorationsAt(c) == {i \in 1..Len(decorations) : CellOf(decorations[i].pos) = c}

\* a neighbour of cell c holds a line character of the type of its offset
LineNeighbour(c) ==
    \E d \in PointOffsets :
        LET n == Get(c[1] + d[1], c[2] + d[2])
        IN  CASE d \in {<<-1, 0>>, <<1, 0>>} -> is_solid_h_line(n)
              [] d \in {<<0, -1>>, <<0, 1>>} -> is_solid_v_line(n)
              [] d \in {<<-1, 1>>, <<1, -1>>} -> is_solid_d_line(n)
              [] d \in {<<-1, -1>>, <<1, 1>>} -> is_solid_b_line(n)

\* the kind of the point decoration of a point character
PointKind(ch) ==
    CASE ch \in {"*", PT_CLOSED} -> "ClosedPoint"
      [] ch \in {"o", PT_OPEN} -> "OpenPoint"
      [] ch = PT_DOTTED -> "DottedPoint"
      [] ch = PT_SHADED -> "ShadedPoint"
      [] ch = PT_XOR -> "XorPoint"

\* C12: after find_decorations, a '*' or 'o' cell carries one point
\* decoration (closed, open) and is consumed if and only if one of its
\* eight neighbours holds a line character of the type of that offset;
\* otherwise it carries no decoration and is unconsumed text ("o" alone:
\* no decoration; "-o": one open point).  A cell holding one of the five
\* Unicode point glyphs always carries its decoration and is consumed.
C12_PointClassification ==
    pc = "generate" =>
        /\ \A c \in AllCells :
               LET ch == Get(c[1], c[2])
               IN  /\ ch \in {"*", "o"} =>
                          IF LineNeighbour(c)
                          THEN /\ Cardinality(DecorationsAt(c)) = 1
                               /\ \A i \in DecorationsAt(c) :
                                      decorations[i].kind = PointKind(ch)
                               /\ IsUsed(used, c[1], c[2])
                          ELSE /\ DecorationsAt(c) = {}
                               /\ ~IsUsed(used, c[1], c[2])
                               /\ c \in TextCells(used)
                   /\ ch \in POINT_CHARS \ {"*", "o"} =>
                          /\ Cardinality(DecorationsAt(c)) = 1
                          /\ \A i \in DecorationsAt(c) :
                                 decorations[i].kind = PointKind(ch)
                          /\ IsUsed(used, c[1], c[2])
        /\ input = <<"o">> => decorations = <<>>
        /\ input = <<"-", "o">> =>
               Len(decorations) = 1 /\ decorations[1].kind = "OpenPoint"

\* C12 witness: the decoration scanners have run on a grid with a '*'
\* whose only neighbour is a '/' at its lower left, and the cell of the
\* '*' carries a closed point.
C12_Witness ==
    /\ pc = "generate"
    /\ \E c \in AllCells :
           /\ Get(c[1], c[2]) = "*"
           /\ Get(c[1] - 1, c[2] + 1) = "/"
           /\ Cardinality(NonBlankCells) = 2
           /\ \E i \in DecorationsAt(c) : decorations[i].kind = "ClosedPoint"

\* how far the cursor is along its line: the row for the vertical and the
\* diagonal walks, the column for the others
Along(p, pos) ==
    IF p \in VerticalScanners \cup DiagonalScanners THEN pos[2] ELSE pos[1]

\* loop variables s come strictly before loop variables t in the scan
\* order of scanner p: an earlier line, or the same line and a cursor that
\* is less far along it
ScanBefore(p, s, t) ==
    \/ s.line < t.line
    \/ /\ s.line = t.line
       /\ \/ s.pos = <<>> /\ t.pos # <<>>
          \/ s.pos # <<>> /\ t.pos # <<>> /\ Along(p, s.pos) < Along(p, t.pos)

\* C13: every loop iteration of every scanner of find_paths and
\* find_decorations strictly advances the scan cursor; a scanner makes at
\* most width * height + width + height iterations; and from every grid
\* the sequence of scanners runs to its end.
C13_Termination ==
    /\ [][ (pc \in Scanners /\ pc' = pc) =>
               /\ ScanBefore(pc, scan, scan')
               /\ scan'.iters <= scan.iters + 1 ]_vars
    /\ [](pc \in Scanners => scan.iters <= width * height + width + height)
    /\ (pc = "ready" ~> pc = "generate")

\* C13 witness: the forward-diagonal scanner has finished its last sweep
\* over the box of four columns and three rows, after one iteration for
\* each of the 12 cells and one for each of the 6 sweeps.
C13_Witness ==
    /\ pc = "forward"
    /\ width = 4 /\ height = 3
    /\ scan.pos = <<>>
    /\ scan.line = 6
    /\ scan.iters = 18
    /\ \E i \in 1..Len(paths) : is_horizontal(paths[i])

C15_JunctionEveryRole ==
    (pc = "classified" /\ input = <<"+">>) =>
        /\ call.ret.is_solid_h_line
        /\ call.ret.is_squiggle_h_line
        /\ call.ret.is_double_h_line
        /\ call.ret.is_solid_v_line
        /\ call.ret.is_double_v_line
        /\ call.ret.is_solid_d_line
        /\ call.ret.is_solid_b_line

\* C15: the '+' has been classified: it is a line character of the three
\* horizontal and the two vertical kinds and of neither diagonal kind.
C15_JunctionNotDiagonal ==
    /\ pc = "classified"
    /\ input = <<"+">>
    /\ call.ret.is_solid_h_line
    /\ call.ret.is_squiggle_h_line
    /\ call.ret.is_double_h_line
    /\ call.ret.is_solid_v_line
    /\ call.ret.is_double_v_line
    /\ ~call.ret.is_solid_d_line
    /\ ~call.ret.is_solid_b_line

\* the role predicates of the classifier (is_ascii_letter is a text helper)
RolePredicates ==
    {"is_vertex", "is_undirected_vertex", "is_top_vertex", "is_bottom_vertex",
     "is_top_vertex_or_decoration", "is_bottom_vertex_or_decoration",
     "is_vertex_or_left_decoration", "is_vertex_or_right_decoration",
     "is_solid_h_line", "is_squiggle_h_line", "is_double_h_line",
     "is_any_h_line", "is_solid_v_line", "is_double_v_line", "is_solid_d_line",
     "is_solid_b_line", "is_gray", "is_tri", "is_arrow_head", "is_point",
     "is_jump", "is_decoration"}

\* C16: every classifier function has a value for every character; a
\* character outside the known glyph sets yields false from every role
\* predicate, gray level 0 and triangle angle 0; the four fill glyphs have
\* the levels 64, 128, 191, 255 and the four triangle glyphs the angles 0,
\* 90, 180, 270; is_vertex holds exactly for the top and bottom vertices.
C16_ClassifierTotal ==
    pc = "classified" =>
        LET c == input[1]
            r == call.ret
        IN  /\ \A f \in RolePredicates \cup {"is_ascii_letter"} : r[f] \in BOOLEAN
            /\ r.gray_level \in 0..255
            /\ r.tri_angle \in {0, 90, 180, 270}
            /\ c \notin KnownGlyphs =>
                   /\ \A f \in RolePredicates : ~r[f]
                   /\ r.gray_level = 0
                   /\ r.tri_angle = 0
            /\ c = "u2581" => r.gray_level = 64
            /\ c = "u2582" => r.gray_level = 128
            /\ c = "u2583" => r.gray_level = 191
            /\ c = "u2588" => r.gray_level = 255
            /\ c = "u25E2" => r.tri_angle = 0
            /\ c = "u25E3" => r.tri_angle = 90
            /\ c = "u25E4" => r.tri_angle = 180
            /\ c = "u25E5" => r.tri_angle = 270
            /\ c \notin GRAY_CHARS => r.gray_level = 0
            /\ c \notin TRI_CHARS => r.tri_angle = 0
            /\ r.is_vertex <=> (r.is_top_vertex \/ r.is_bottom_vertex)

\* C16 witness: a character the classifier does not know, the three-byte
\* letter, has been classified: no vertex, gray level 0.
C16_Witness ==
    /\ pc = "classified"
    /\ input = <<KANJI>>
    /\ call.ret.gray_level = 0
    /\ ~call.ret.is_vertex

\* the characters of the n cells of row y from column x0 on
RowText(x0, y, n) == [i \in 1..n |-> Get(x0 + i - 1, y)]

\* the text t holds k blanks in a row
HasBlankRun(t, k) ==
    \E i \in 1..(Len(t) - k + 1) : \A j \in i..(i + k - 1) : t[j] = SP

\* a walk on bitmap u that has returned the cells before column e of row y
\* went on over blanks only and stopped at the end of the row, on a
\* non-blank consumed cell, or on the blank that made th blanks in a row
StoppedBehind(u, e, y, th) ==
    \E stop \in e..Max(e, width) :
        /\ \A k \in e..(stop - 1) : Get(k, y) = SP
        /\ th > 0 => stop - e < th
        /\ \/ stop >= width
           \/ Get(stop, y) # SP /\ IsUsed(u, stop, y)
           \/ th > 0 /\ Get(stop, y) = SP /\ stop - e + 1 = th

C18_TextStart ==
    [][ (pc = "ready" /\ call'.op = "text_start") =>
          LET from == call'.x
              y == call'.y
              cols == {c \in 0..(width - 1) :
                          /\ c >= from
                          /\ 0 <= y /\ y < height
                          /\ chars[y + 1][c + 1] # SP
                          /\ ~used[y + 1][c + 1]}
          IN  /\ cols = {} => call'.ret = <<>>
              /\ cols # {} =>
                     /\ Len(call'.ret) = 1
                     /\ call'.ret[1] \in cols
                     /\ \A c \in cols : call'.ret[1] <= c
              /\ chars' = chars /\ used' = used
              /\ width' = width /\ height' = height ]_vars

\* C18 witness: text_start, called from a column left of the grid, has
\* skipped a consumed letter and a blank and returned the column of the
\* next letter.
C18_Witness ==
    /\ call.op = "text_start"
    /\ call.x < 0
    /\ call.y = 0
    /\ IsUsed(used, 0, 0)
    /\ Get(0, 0) # SP
    /\ Get(1, 0) = SP
    /\ call.ret = <<2>>

\* the number of leading white-space characters of a line
LeadCount(l) == Len(l) - Len(TrimStart(l))

\* the least number of leading white-space characters of the non-blank
\* lines ls, 0 when every line is blank
CommonIndent(ls) ==
    LET nonblank == {i \in 1..Len(ls) : ~IsBlankLine(ls[i])}
    IN  IF nonblank = {} THEN 0
        ELSE CHOOSE m \in {LeadCount(ls[i]) : i \in nonblank} :
                 \A i \in nonblank : m <= LeadCount(ls[i])

\* the line l without its first m characters
Stripped(l, m) == SubSeq(l, m + 1, Len(l))

\* C19: after Grid::new, with m the least number of leading blanks of the
\* non-blank input lines, every line has lost exactly its first m
\* characters, width is the greatest remaining length in characters,
\* height is the number of input lines, every row of chars and of used has
\* width cells, shorter lines are padded with blanks, and no cell is
\* consumed.  The code counts and cuts the indentation in bytes, so lines
\* indented by white space of different byte lengths lose different
\* numbers of characters.
C19_RectangularGrid ==
    pc = "ready" =>
        LET ls == Lines(input)
            m == CommonIndent(ls)
        IN  /\ height = Len(ls)
            /\ width = SeqMax([i \in 1..Len(ls) |-> Len(Stripped(ls[i], m))])
            /\ Len(chars) = height
            /\ Len(used) = height
            /\ \A i \in 1..height :
                   /\ Len(chars[i]) = width
                   /\ Len(used[i]) = width
                   /\ \A c \in 1..width : ~used[i][c]
                   /\ i <= Len(ls) =>
                          unhide_markers(chars[i]) =
                              Stripped(ls[i], m)
                                  \o Repeat(SP, width - Len(Stripped(ls[i], m)))

\* C19: Grid::new has built the grid of "  a" above a line that starts
\* with a no-break space; the 'a' of column 2 and the 'b' of column 1 are
\* both in column 0.
C19_IndentCutInBytes ==
    /\ pc = "ready"
    /\ input = <<SP, SP, "a", NL, NBSP, "b">>
    /\ chars = << <<"a">>, <<"b">> >>
    /\ width = 1
    /\ height = 2

\* char::is_alphabetic on the characters of the model: the ASCII letters
\* and the three-byte letter
IsAlphabetic(c) == c \in AsciiLetters \cup {KANJI}

\* the lines hide_markers is given: the input without its common
\* indentation, padded to equal length
LinesBeforeHiding == Lines(equalize_line_lengths(remove_leading_space(input)))

\* the character of column x (from 1) of line y of these, a blank outside
BeforeHiding(x, y) ==
    IF x < 1 \/ x > Len(LinesBeforeHiding[y]) THEN SP ELSE LinesBeforeHiding[y][x]

\* the cells of the grid hold the characters of LinesBeforeHiding, the
\* markers that have a left or right neighbour satisfying letter(_)
\* replaced by U+E000, U+E001, U+E002 and nothing else changed
HiddenExactly(letter(_)) ==
    \A y \in 1..Len(LinesBeforeHiding) :
        \A x \in 1..Len(LinesBeforeHiding[y]) :
            LET c == BeforeHiding(x, y)
                near == letter(BeforeHiding(x - 1, y)) \/ letter(BeforeHiding(x + 1, y))
            IN  /\ y <= Len(chars)
                /\ x <= Len(chars[y])
                /\ chars[y][x] =
                       CASE c = "o" /\ near -> HID_o
                         [] c = "v" /\ near -> HID_v
                         [] c = "V" /\ near -> HID_V
                         [] OTHER -> c

\* no arrow and no point decoration lies on a cell that holds a placeholder
NoMarkerOnPlaceholder ==
    \A i \in 1..Len(decorations) :
        decorations[i].kind \in PointKinds \cup {"Arrow"} =>
            LET c == CellOf(decorations[i].pos)
            IN  Get(c[1], c[2]) \notin {HID_o, HID_v, HID_V}

\* C20 as stated: every 'o', 'v', 'V' with an alphabetic character
\* directly left or right of it on its row is replaced by its placeholder,
\* every other character is unchanged, and no placeholder cell carries an
\* arrow or a point decoration.  Violated: the neighbour test is
\* is_ascii_alphabetic, so the 'o' of "日o-" stays and becomes an open
\* point.
C20_MarkerHiding ==
    pc \notin {"new", "panic"} =>
        /\ HiddenExactly(IsAlphabetic)
        /\ NoMarkerOnPlaceholder

\* C20 amended: the same with "ASCII letter" for "alphabetic character".
C20_MarkerHidingAscii ==
    pc \notin {"new", "panic"} =>
        /\ HiddenExactly(is_ascii_letter)
        /\ NoMarkerOnPlaceholder

\* C20 witness: the run on a 'v' below a '|' and left of an 'a' is done;
\* the 'v' is held as its placeholder and there is no arrow.
C20_Witness ==
    /\ pc = "done"
    /\ input = <<"|", SP, NL, "v", "a">>
    /\ chars = << <<"|", SP>>, <<HID_v, "a">> >>
    /\ decorations = <<>>

\* sequence s is an initial part of sequence t
IsPrefixOf(s, t) == Len(s) <= Len(t) /\ \A i \in 1..Len(s) : t[i] = s[i]

\* the scanners in the order of the pipeline, named by the value pc has
\* while they run: the nine path scanners, then the five decoration scanners
PathStages ==
    <<"ready", "double_v", "solid_h", "squiggle_h", "double_h", "backslash",
      "forward", "corners", "underscore">>
DecorationStages == <<"arrows", "points", "jumps", "gray", "triangles">>
StageRank(p) ==
    CHOOSE i \in 1..15 : (PathStages \o DecorationStages \o <<"generate">>)[i] = p

\* path q has the shape of the paths of the path scanner that runs at p
PathOfStage(p, q) ==
    CASE p = "ready" -> q.ctrl = <<>> /\ q.a.x = q.b.x /\ ~q.double /\ ~q.squiggle
      [] p = "double_v" -> q.ctrl = <<>> /\ q.a.x = q.b.x /\ q.double
      [] p = "solid_h" ->
             q.ctrl = <<>> /\ q.a.y = q.b.y /\ q.a.y % 2 = 0 /\ ~q.double /\ ~q.squiggle
      [] p = "squiggle_h" -> q.ctrl = <<>> /\ q.a.y = q.b.y /\ q.squiggle
      [] p = "double_h" -> q.ctrl = <<>> /\ q.a.y = q.b.y /\ q.double
      [] p = "backslash" -> is_back_diagonal(q)
      [] p = "forward" -> is_diagonal(q)
      [] p = "corners" -> q.ctrl # <<>>
      [] p = "underscore" -> q.ctrl = <<>> /\ q.a.y = q.b.y /\ q.a.y % 2 = 1
      [] OTHER -> FALSE

\* decoration d has a kind of the decoration scanner that runs at p
DecorationOfStage(p, d) ==
    CASE p = "arrows" -> d.kind = "Arrow"
      [] p = "points" -> d.kind \in PointKinds
      [] p = "jumps" -> d.kind = "Jump"
      [] p = "gray" -> d.kind = "Gray"
      [] p = "triangles" -> d.kind = "Triangle"
      [] OTHER -> FALSE

\* C21: in every step of a run both collections only grow at their end;
\* a path is appended only while a path scanner runs, has that scanner's
\* shape and is appended while there is no decoration; a decoration is
\* appended only while a decoration scanner runs, is of that scanner's kind
\* and the step leaves the paths alone; the scanners run one after the
\* other in the order solid vertical, double vertical, solid horizontal,
\* squiggle, double horizontal, back diagonal, forward diagonal, curved
\* corners, underscores, arrow heads, points, jumps, gray fills, triangles.
C21_PipelineOrder ==
    [][ /\ IsPrefixOf(paths, paths')
        /\ IsPrefixOf(decorations, decorations')
        /\ \A i \in (Len(paths) + 1)..Len(paths') :
               /\ decorations = <<>> /\ decorations' = <<>>
               /\ PathOfStage(pc, paths'[i])
        /\ \A i \in (Len(decorations) + 1)..Len(decorations') :
               /\ paths' = paths
               /\ DecorationOfStage(pc, decorations'[i])
        /\ (pc \in Scanners /\ pc' # pc) => StageRank(pc') = StageRank(pc) + 1
      ]_vars

\* C21 witness: all scanners have run on a '+' with two dashes and an arrow
\* head to its right and two bars below: the vertical path comes first,
\* the horizontal one second, and there is one arrow.
C21_Witness ==
    /\ pc = "generate"
    /\ input = <<"+", "-", "-", ">", NL, "|", NL, "|">>
    /\ Len(paths) = 2
    /\ paths[1] = line_from_grid(0, 0, 0, 2)
    /\ paths[2] = line_from_grid(0, 0, 2, 0)
    /\ Len(decorations) = 1
    /\ decorations[1].kind = "Arrow"

\* C22: a step of a scanner changes no character and neither width nor
\* height; a consumed cell stays consumed; a cell that becomes consumed is
\* non-blank; a path scanner leaves the decorations as they are and a
\* decoration scanner the paths.
C22_ScannerFrame ==
    [][ (pc \in Scanners) =>
          /\ chars' = chars
          /\ width' = width
          /\ height' = height
          /\ Len(used') = Len(used)
          /\ \A y \in 1..Len(used) :
                 /\ Len(used'[y]) = Len(used[y])
                 /\ \A x \in 1..Len(used[y]) :
                        /\ used[y][x] => used'[y][x]
                        /\ (used'[y][x] /\ ~used[y][x]) => chars[y][x] # SP
          /\ StageRank(pc) <= Len(PathStages) => decorations' = decorations
          /\ StageRank(pc) > Len(PathStages) => (paths' = paths) ]_vars

\* C22 witness: find_points is running on the '+' with two dashes, an
\* arrow head and two bars; the characters are those of the input, the
\* cell of the arrow head and the cells of the runs are consumed, the two
\* blanks of the second row are not.
C22_Witness ==
    /\ pc = "points"
    /\ input = <<"+", "-", "-", ">", NL, "|", NL, "|">>
    /\ chars = << <<"+", "-", "-", ">">>, <<"|", SP, SP, SP>>, <<"|", SP, SP, SP>> >>
    /\ used = << <<TRUE, TRUE, TRUE, TRUE>>, <<TRUE, FALSE, FALSE, FALSE>>,
                 <<TRUE, FALSE, FALSE, FALSE>> >>
    /\ Len(paths) = 2
    /\ Len(decorations) = 1

\* the curved paths whose control points lie on the centre of cell c, in
\* the order of the collection
CurvesAt(c) ==
    Filter(paths, {i \in 1..Len(paths) :
                      /\ paths[i].ctrl # <<>>
                      /\ paths[i].ctrl[1] = [x |-> 2 * c[1], y |-> 2 * c[2]]})

\* the curve at cell c that starts half a cell to the side sx (-1 left, 1
\* right) and ends half a cell above (sy = -1) or below (sy = 1) the centre
ExpectedCurve(c, sx, sy) ==
    [a |-> [x |-> 2 * c[1] + sx, y |-> 2 * c[2]],
     b |-> [x |-> 2 * c[1], y |-> 2 * c[2] + sy],
     ctrl |-> << [x |-> 2 * c[1], y |-> 2 * c[2]], [x |-> 2 * c[1], y |-> 2 * c[2]] >>,
     double |-> FALSE,
     squiggle |-> FALSE]

\* C23: after find_curved_corners, a '.' or ',' cell with a solid vertical
\* character below has one curve for a solid horizontal character on its
\* left and one for a solid horizontal character on its right, and a '''
\* or '`' cell with a solid vertical character above likewise; every curve
\* has both control points on the centre of its cell, starts half a cell
\* beside it and ends half a cell below (above) it; the cell is consumed
\* when it has a curve; a vertex cell without a matching pattern has no
\* curve and is not consumed, and no other cell has a curve.
C23_CurvedCorners ==
    pc = "underscore" =>
        /\ \A c \in AllCells :
               LET ch == Get(c[1], c[2])
                   top == ch \in {".", ","}
                   bottom == ch \in {"'", BACKTICK}
                   sy == IF top THEN 1 ELSE -1
                   stem == is_solid_v_line(Get(c[1], c[2] + sy))
                   onLeft == (top \/ bottom) /\ stem /\ is_solid_h_line(Get(c[1] - 1, c[2]))
                   onRight == (top \/ bottom) /\ stem /\ is_solid_h_line(Get(c[1] + 1, c[2]))
               IN  /\ CurvesAt(c) =
                          (IF onLeft THEN <<ExpectedCurve(c, -1, sy)>> ELSE <<>>)
                              \o (IF onRight THEN <<ExpectedCurve(c, 1, sy)>> ELSE <<>>)
                   /\ (onLeft \/ onRight) => IsUsed(used, c[1], c[2])
                   /\ ((top \/ bottom) /\ ~onLeft /\ ~onRight) => ~IsUsed(used, c[1], c[2])
        /\ \A i \in 1..Len(paths) :
               paths[i].ctrl # <<>> =>
                   /\ paths[i].ctrl[1] = paths[i].ctrl[2]
                   /\ paths[i].ctrl[1].x % 2 = 0
                   /\ paths[i].ctrl[1].y % 2 = 0
                   /\ CellOf(paths[i].ctrl[1]) \in AllCells

\* C23 witness: find_curved_corners has run on a '.' between two dashes
\* above a bar; the cell of the '.' has its left and its right curve and is
\* consumed.
C23_Witness ==
    /\ pc = "underscore"
    /\ input = <<"-", ".", "-", NL, SP, "|">>
    /\ paths = <<ExpectedCurve(<<1, 0>>, -1, 1), ExpectedCurve(<<1, 0>>, 1, 1)>>
    /\ IsUsed(used, 1, 0)

\* the arrow decorations attributed to cell c, as the set of their indices
ArrowsAt(c) == {i \in DecorationsAt(c) : decorations[i].kind = "Arrow"}

\* a straight line of the direction of the arrow glyph at cell (x, y) ends
\* at or passes through the adjacent cell behind the head
StraightBehind(x, y) ==
    LET c == Get(x, y)
    IN  CASE c = ">" -> left_ends_at(paths, x, y) \/ horizontal_passes_through(paths, x - 1, y)
          [] c = "<" -> right_ends_at(paths, x, y) \/ horizontal_passes_through(paths, x + 1, y)
          [] c = "^" -> down_ends_at(paths, x, y) \/ vertical_passes_through(paths, x, y + 1)
          [] c \in {"v", "V"} -> up_ends_at(paths, x, y) \/ vertical_passes_through(paths, x, y - 1)
          [] OTHER -> FALSE

\* a diagonal line ends at the diagonally adjacent cell behind the head of
\* the arrow glyph at cell (x, y): left of a '>', right of a '<', below a
\* '^', above a 'v' or 'V'
DiagonalBehind(x, y) ==
    LET c == Get(x, y)
    IN  CASE c = ">" -> diagonal_up_ends_at(paths, x, y) \/ back_diagonal_down_ends_at(paths, x, y)
          [] c = "<" -> diagonal_down_ends_at(paths, x, y) \/ back_diagonal_up_ends_at(paths, x, y)
          [] c = "^" -> diagonal_up_ends_at(paths, x, y) \/ back_diagonal_up_ends_at(paths, x, y)
          [] c \in {"v", "V"} ->
                 diagonal_down_ends_at(paths, x, y) \/ back_diagonal_down_ends_at(paths, x, y)
          [] OTHER -> FALSE

\* C24: after find_arrow_heads, a cell holding one of the five arrow glyphs
\* has exactly one arrow decoration and is consumed when a straight line of
\* its direction ends at or passes through the adjacent cell or, failing
\* that, a diagonal line ends at the adjacent cell; the straight test comes
\* first and fixes the angle; a glyph that passes neither test has no
\* decoration and is not consumed.  Violated: for '^', 'v' and 'V' the code
\* makes the straight test only.
C24_ArrowRule ==
    pc = "points" =>
        \A c \in AllCells :
            Get(c[1], c[2]) \in ARROW_HEAD_CHARS =>
                LET ch == Get(c[1], c[2])
                    straight == StraightBehind(c[1], c[2])
                    diagonal == DiagonalBehind(c[1], c[2])
                IN  /\ (straight \/ diagonal) =>
                           /\ Cardinality(ArrowsAt(c)) = 1
                           /\ IsUsed(used, c[1], c[2])
                    /\ straight =>
                           \A i \in ArrowsAt(c) :
                               decorations[i].angle =
                                   CASE ch = ">" -> ARROW_RIGHT
                                     [] ch = "<" -> ARROW_LEFT
                                     [] ch = "^" -> ARROW_UP
                                     [] OTHER -> ARROW_DOWN
                    /\ ~(straight \/ diagonal) =>
                           /\ ArrowsAt(c) = {}
                           /\ ~IsUsed(used, c[1], c[2])

\* C24: find_arrow_heads has run on a 'v' at the lower end of a '\' run of
\* two cells: the run is a path that ends at the cell above left of the
\* 'v', and the 'v' has no arrow and is not consumed.
C24_NoArrowOnDiagonalV ==
    /\ pc = "points"
    /\ input = <<"\\", NL, SP, "\\", NL, SP, SP, "v">>
    /\ paths = <<line_from_grid(0, 0, 1, 1)>>
    /\ back_diagonal_down_ends_at(paths, 2, 2)
    /\ decorations = <<>>
    /\ ~IsUsed(used, 2, 2)

\* the vertical line of the drawing runs through cell (x, y): a vertical
\* path passes through the cell, or the cells directly above and below
\* hold solid vertical line characters
VerticalLineThrough(x, y) ==
    \/ vertical_passes_through(paths, x, y)
    \/ is_solid_v_line(Get(x, y - 1)) /\ is_solid_v_line(Get(x, y + 1))

DecorationsOfKind(k) == {i \in 1..Len(decorations) : decorations[i].kind = k}

\* C26: after find_decorations every cell that holds one of the four fill
\* glyphs is consumed and has exactly one Gray decoration, with the level
\* 64, 128, 191 or 255 of its glyph; every cell that holds one of the four
\* triangle glyphs is consumed and has exactly one Triangle decoration,
\* with the angle 0, 90, 180 or 270 of its glyph; there are as many Gray
\* decorations as fill glyphs and as many Triangle decorations as triangle
\* glyphs in the grid.
C26_GrayAndTriangles ==
    pc = "generate" =>
        /\ \A c \in AllCells :
               LET ch == Get(c[1], c[2])
               IN  /\ ch \in {"u2581", "u2582", "u2583", "u2588"} =>
                          /\ IsUsed(used, c[1], c[2])
                          /\ Cardinality(DecorationsAt(c) \cap DecorationsOfKind("Gray")) = 1
                          /\ \A i \in DecorationsAt(c) \cap DecorationsOfKind("Gray") :
                                 decorations[i].gray =
                                     CASE ch = "u2581" -> 64
                                       [] ch = "u2582" -> 128
                                       [] ch = "u2583" -> 191
                                       [] ch = "u2588" -> 255
                   /\ ch \in {"u25E2", "u25E3", "u25E4", "u25E5"} =>
                          /\ IsUsed(used, c[1], c[2])
                          /\ Cardinality(DecorationsAt(c) \cap DecorationsOfKind("Triangle")) = 1
                          /\ \A i \in DecorationsAt(c) \cap DecorationsOfKind("Triangle") :
                                 decorations[i].angle =
                                     CASE ch = "u25E2" -> 0
                                       [] ch = "u25E3" -> 90
                                       [] ch = "u25E4" -> 180
                                       [] ch = "u25E5" -> 270
        /\ Cardinality(DecorationsOfKind("Gray")) =
               Cardinality({c \in AllCells :
                               Get(c[1], c[2]) \in {"u2581", "u2582", "u2583", "u2588"}})
        /\ Cardinality(DecorationsOfKind("Triangle")) =
               Cardinality({c \in AllCells :
                               Get(c[1], c[2]) \in {"u25E2", "u25E3", "u25E4", "u25E5"}})

\* C26 witness: the decoration scanners have run on a grid with two fill
\* glyphs and two triangle glyphs among a letter and a bar: two Gray
\* decorations (levels 255 and 64) and two Triangle decorations (angles 270
\* and 0), all four cells consumed.
C26_Witness ==
    /\ pc = "generate"
    /\ input = <<GRAY4, "a", TRI4, NL, "|", TRI1, GRAY1>>
    /\ Len(decorations) = 4
    /\ decorations[1].kind = "Gray" /\ decorations[1].gray = 255
    /\ decorations[2].kind = "Gray" /\ decorations[2].gray = 64
    /\ decorations[3].kind = "Triangle" /\ decorations[3].angle = 270
    /\ decorations[4].kind = "Triangle" /\ decorations[4].angle = 0
    /\ used = << <<TRUE, FALSE, TRUE>>, <<TRUE, TRUE, TRUE>> >>

\* the stages that follow find_solid_horizontal_lines
AfterSolidH == {p \in Scanners \cup {"generate"} : StageRank(p) > StageRank("solid_h")}

\* C27: a '+' that the vertical scanner has consumed is walked by the
\* solid horizontal scanner all the same: for a box of w columns and h rows
\* with '+' corners, '-' edges and '|' sides the four corners are consumed
\* when the vertical scanner returns, and find_paths yields exactly the two
\* sides, from corner to corner, and the two edges, from corner to corner,
\* so that each corner is an end of one vertical and of one horizontal
\* path; and a '+' with a solid horizontal character on its left and on its
\* right lies inside one horizontal path.
C27_SharedJunction ==
    /\ \A w \in 3..MaxBox, h \in 3..MaxBox :
           input = BoxText(w, h) =>
               /\ pc = "double_v" =>
                      \A c \in {<<0, 0>>, <<w - 1, 0>>, <<0, h - 1>>, <<w - 1, h - 1>>} :
                          Get(c[1], c[2]) = "+" /\ IsUsed(used, c[1], c[2])
               /\ pc \in AfterSolidH =>
                      /\ Len(paths) = 4
                      /\ paths[1] = line_from_grid(0, 0, 0, h - 1)
                      /\ paths[2] = line_from_grid(w - 1, 0, w - 1, h - 1)
                      /\ paths[3] = line_from_grid(0, 0, w - 1, 0)
                      /\ paths[4] = line_from_grid(0, h - 1, w - 1, h - 1)
                      /\ \A c \in {<<0, 0>>, <<w - 1, 0>>, <<0, h - 1>>, <<w - 1, h - 1>>} :
                             /\ Cardinality({i \in 1..4 :
                                    /\ is_vertical(paths[i])
                                    /\ from_grid(c[1], c[2]) \in {paths[i].a, paths[i].b}}) = 1
                             /\ Cardinality({i \in 1..4 :
                                    /\ is_horizontal(paths[i])
                                    /\ from_grid(c[1], c[2]) \in {paths[i].a, paths[i].b}}) = 1
    /\ pc \in AfterSolidH =>
           \A c \in AllCells :
               (/\ Get(c[1], c[2]) = "+"
                /\ Get(c[1] - 1, c[2]) \in {"-", BOXH}
                /\ Get(c[1] + 1, c[2]) \in {"-", BOXH}) =>
                   Cardinality({i \in 1..Len(paths) :
                       /\ is_horizontal(paths[i])
                       /\ paths[i].a.y = 2 * c[2]
                       /\ paths[i].a.x < 2 * c[1]
                       /\ 2 * c[1] < paths[i].b.x}) = 1

\* C27 witness: find_paths has run on a '+' between two dashes that is
\* crossed by a vertical line: the '+' was consumed by the vertical path
\* and lies inside the one horizontal path.
C27_Witness ==
    /\ pc = "arrows"
    /\ input = <<SP, "|", NL, "-", "+", "-", NL, SP, "|">>
    /\ paths = <<line_from_grid(1, 0, 1, 2), line_from_grid(0, 1, 2, 1)>>
    /\ IsUsed(used, 1, 1)

\* position v is the centre of a cell of the grid
IsCellCentre(v) == v.x % 2 = 0 /\ v.y % 2 = 0 /\ CellOf(v) \in AllCells

\* path q is a straight path from cell centre to cell centre
CentreToCentre(q) == q.ctrl = <<>> /\ IsCellCentre(q.a) /\ IsCellCentre(q.b)

\* path q is a corner curve: its control points are the centre of a vertex
\* cell, it starts half a cell left or right of it and ends half a cell
\* above or below it
HalfCellCurve(q) ==
    /\ Len(q.ctrl) = 2
    /\ q.ctrl[1] = q.ctrl[2]
    /\ IsCellCentre(q.ctrl[1])
    /\ q.a \in {[x |-> q.ctrl[1].x - 1, y |-> q.ctrl[1].y],
                [x |-> q.ctrl[1].x + 1, y |-> q.ctrl[1].y]}
    /\ q.b \in {[x |-> q.ctrl[1].x, y |-> q.ctrl[1].y - 1],
                [x |-> q.ctrl[1].x, y |-> q.ctrl[1].y + 1]}

\* path q is an underscore path: both ends half a cell below the centres
\* of two different cells of one row, with underscores from the one to the
\* other
HalfCellBelow(q) ==
    /\ q.ctrl = <<>>
    /\ q.a.y = q.b.y
    /\ q.a.y % 2 = 1
    /\ q.a.x % 2 = 0
    /\ q.b.x % 2 = 0
    /\ q.a.x < q.b.x
    /\ CellOf(q.a) \in AllCells
    /\ CellOf(q.b) \in AllCells
    /\ \A x \in CellOf(q.a)[1]..CellOf(q.b)[1] : Get(x, CellOf(q.a)[2]) = "_"

\* C28: every path of the collection, during and after find_paths, goes
\* from the centre of a cell of the grid to the centre of a cell of the
\* grid, or is a corner curve with its ends half a cell beside and half a
\* cell above or below the vertex, or is an underscore path with its ends
\* half a cell below the centres of the first and the last cell of a run
\* of two cells or more.
C28_PathEndpoints ==
    \A i \in 1..Len(paths) :
        \/ CentreToCentre(paths[i])
        \/ HalfCellCurve(paths[i])
        \/ HalfCellBelow(paths[i])

\* C28 witness: find_paths has run on "--." above "__|": a horizontal path
\* extended onto the '.', the left curve of the '.', and the underscore
\* path half a cell below the second row's centres.
C28_Witness ==
    /\ pc = "arrows"
    /\ input = <<"-", "-", ".", NL, "_", "_", "|">>
    /\ Len(paths) = 3
    /\ paths[1] = line_from_grid(0, 0, 2, 0)
    /\ paths[2] = ExpectedCurve(<<2, 0>>, -1, 1)
    /\ paths[3] = PathLine([x |-> 0, y |-> 3], [x |-> 2, y |-> 3])

\* C29: with s the text hide_markers is given, the grid built from
\* hide_markers(s) has as many rows as s has lines, every row has as many
\* characters as its line, and unhide_markers turns every row back into
\* its line, character for character, also when s holds U+E000..U+E002.
\* Violated: a private-use character of the input comes back as 'o', 'v'
\* or 'V'.
C29_HidingReversible ==
    pc = "ready" =>
        /\ Len(chars) = Len(LinesBeforeHiding)
        /\ \A y \in 1..Len(chars) :
               y <= Len(LinesBeforeHiding) =>
                   /\ Len(chars[y]) = Len(LinesBeforeHiding[y])
                   /\ unhide_markers(chars[y]) = LinesBeforeHiding[y]

\* C29: Grid::new has built the grid of the one-character input U+E000;
\* hide_markers has left the character as it is and unhide_markers makes
\* an 'o' of it.
C29_PrivateUseBecomesLetter ==
    /\ pc = "ready"
    /\ input = <<HID_o>>
    /\ chars = << <<HID_o>> >>
    /\ unhide_markers(chars[1]) = <<"o">>

\* C30: after find_decorations no two decorations lie on the same cell,
\* every cell with a decoration is consumed, and there are at most as many
\* decorations as non-blank cells.
C30_OneDecorationPerCell ==
    pc = "generate" =>
        /\ \A i, j \in 1..Len(decorations) :
               i # j => CellOf(decorations[i].pos) # CellOf(decorations[j].pos)
        /\ \A i \in 1..Len(decorations) :
               /\ decorations[i].pos.x % 2 = 0
               /\ decorations[i].pos.y % 2 = 0
               /\ CellOf(decorations[i].pos) \in NonBlankCells
               /\ IsUsed(used, CellOf(decorations[i].pos)[1], CellOf(decorations[i].pos)[2])
        /\ Len(decorations) <= Cardinality(NonBlankCells)

\* C30 witness: the decoration scanners have run on a '>' that ends both a
\* run of two dashes and a '\' diagonal: the cell passes the straight and a
\* diagonal test and has one arrow, of angle 0, and is consumed.
C30_Witness ==
    /\ pc = "generate"
    /\ input = <<"\\", NL, SP, "\\", NL, "-", "-", ">">>
    /\ left_ends_at(paths, 2, 2)
    /\ back_diagonal_down_ends_at(paths, 2, 2)
    /\ Len(decorations) = 1
    /\ decorations[1].angle = 0
    /\ CellOf(decorations[1].pos) = <<2, 2>>
    /\ IsUsed(used, 2, 2)

====
